---------------------------- MODULE Spec2Model ----------------------------
(***************************************************************************)
(* Verification model of jessebrite/products-api: the credential / token   *)
(* subsystem (src/core/security.py), the error taxonomy                    *)
(* (src/exceptions/exceptions.py), the structured logger (src/logger.py)   *)
(* and the middleware pipeline assembled by src/main.py.                   *)
(*                                                                         *)
(* Seven specifications share the module:                                  *)
(*   SpecAuth  the principal resolver against a clock and a user store     *)
(*             that change between and during requests;                    *)
(*   Spec      one request at a time through the assembled application;    *)
(*   SpecRate  concurrent requests of one client address at the rate       *)
(*             limiter;                                                    *)
(*   SpecLog   the redaction, the logger and the error renderer on their   *)
(*             inputs;                                                     *)
(*   SpecApp   the account routes of src/routers/auth.py against the       *)
(*             database, the password hashing they call and the background *)
(*             tasks of src/tasks/worker.py they schedule;                 *)
(*   SpecItems the item routes of src/routers/items.py;                    *)
(*   SpecVault the secrets vault of src/vault.py against a changing        *)
(*             environment.                                                *)
(***************************************************************************)
EXTENDS Integers, Sequences, FiniteSets, TLC

VARIABLES
    now,        \* wall clock, in milliseconds since the epoch of the model
    users,      \* the users table: a set of rows [username, is_active]
    issued,     \* the last create_access_token call: <<>> or <<[token, iat, delta]>>
    rq,         \* the get_current_user call in progress (SpecAuth)
    req,        \* the HTTP request in flight (Spec)
    pos,        \* index in the middleware stack of the stage holding control
    dir,        \* "idle", "down", "up", "raise" or "sent"
    state_rid,  \* request.state.request_id: <<>> when unset, else <<id>>
    local_rid,  \* the request_id local of each RequestIDMiddleware.dispatch frame
    nuuid,      \* number of uuid4() calls made for this request
    stream,     \* the body chunks the next reader of request.stream() gets
    resp,       \* the response travelling outward
    logs,       \* the log records written for this request
    entered,    \* stages in the order they received the request
    exited,     \* stages in the order they finished the response
    raised,     \* the exception travelling outward: <<>> or <<[at, status_code]>>
    reads,      \* chunks each RequestSizeLimiter.dispatch frame took from the stream
    inflight,   \* position of each concurrent request of one client (SpecRate)
    handled,    \* requests of that client that reached the handler in this window
    lin,        \* the call being rendered or logged (SpecLog): <<>> or <<input>>
    lout,       \* what that call returned and logged: <<>> or <<output>>
    bcrypt_build,      \* what the installed bcrypt does with more than 72 bytes
    db_users,          \* the users table as the routers see it: full rows
    password_of,       \* history: the password each stored user registered with
    db_items,          \* the items table
    pending,           \* per worker, the User that register has added, not committed
    background_tasks,  \* tasks the answered request scheduled and has not run yet
    app_out,           \* the route or function call just answered: <<>> or <<call>>
    ran,               \* the background task calls made since then, in order
    environ,           \* os.environ, as far as the vault reads it
    _secrets_cache,    \* SecretVault._secrets_cache
    _accessed_secrets, \* SecretVault._accessed_secrets
    vout,              \* the vault call just made: <<>> or <<call>>
    first_read         \* history: the first non-None value get_secret returned per key

auth_vars == <<now, users, issued, rq>>
pipe_vars == <<req, pos, dir, state_rid, local_rid, nuuid, stream, resp, logs, entered,
              exited, raised, reads>>
rate_vars == <<inflight, handled>>
log_vars == <<lin, lout>>
app_vars == <<bcrypt_build, db_users, password_of, db_items, pending, background_tasks,
             app_out, ran>>
vault_vars == <<environ, _secrets_cache, _accessed_secrets, vout, first_read>>
vars == <<now, users, issued, rq, req, pos, dir, state_rid, local_rid, nuuid, stream,
          resp, logs, entered, exited, raised, reads, inflight, handled, lin, lout,
          bcrypt_build, db_users, password_of, db_items, pending, background_tasks,
          app_out, ran, environ, _secrets_cache, _accessed_secrets, vout, first_read>>

-----------------------------------------------------------------------------
(* Optional values: None is the empty sequence, a value x is <<x>>.        *)

None == <<>>

Some(x) == <<x>>

IsNone(o) == o = <<>>

-----------------------------------------------------------------------------
(* Error taxonomy: src/exceptions/exceptions.py                            *)

ExceptionClasses ==
    {"AuthException", "BadRequestException", "ValidationException",
     "UnauthorizedException", "ForbiddenException", "NotFoundException",
     "ConflictException", "RateLimitException", "UserNotFoundException",
     "UsernameAlreadyExistsException", "EmailAlreadyExistsException",
     "InvalidCredentialsException", "InactiveUserException"}

\* the base class of each exception class
BaseOf(cls) ==
    CASE cls = "UserNotFoundException" -> "NotFoundException"
      [] cls = "UsernameAlreadyExistsException" -> "ConflictException"
      [] cls = "EmailAlreadyExistsException" -> "ConflictException"
      [] cls = "InvalidCredentialsException" -> "UnauthorizedException"
      [] cls = "InactiveUserException" -> "ForbiddenException"
      [] OTHER -> "AuthException"

\* class attribute status_code, inherited where a subclass does not set it
StatusCodeOf(cls) ==
    LET top == IF BaseOf(cls) = "AuthException" THEN cls ELSE BaseOf(cls)
    IN CASE top = "BadRequestException" -> 400
         [] top = "ValidationException" -> 422
         [] top = "UnauthorizedException" -> 401
         [] top = "ForbiddenException" -> 403
         [] top = "NotFoundException" -> 404
         [] top = "ConflictException" -> 409
         [] top = "RateLimitException" -> 429
         [] OTHER -> 500

\* class attribute code: the ErrorCode member each class names
CodeOf(cls) ==
    CASE cls = "BadRequestException" -> "BAD_REQUEST"
      [] cls = "ValidationException" -> "VALIDATION_ERROR"
      [] cls = "UnauthorizedException" -> "UNAUTHORIZED"
      [] cls = "ForbiddenException" -> "FORBIDDEN"
      [] cls = "NotFoundException" -> "NOT_FOUND"
      [] cls = "ConflictException" -> "CONFLICT"
      [] cls = "RateLimitException" -> "RATE_LIMITED"
      [] cls = "UserNotFoundException" -> "USER_NOT_FOUND"
      [] cls = "UsernameAlreadyExistsException" -> "USER_EXISTS"
      [] cls = "EmailAlreadyExistsException" -> "USER_EXISTS"
      [] cls = "InvalidCredentialsException" -> "INVALID_CREDENTIALS"
      [] cls = "InactiveUserException" -> "INACTIVE_USER"
      [] OTHER -> "INTERNAL_ERROR"

\* class attribute detail
DetailOf(cls) ==
    CASE cls = "BadRequestException" -> "Bad request"
      [] cls = "ValidationException" -> "Validation error"
      [] cls = "UnauthorizedException" -> "Authentication required"
      [] cls = "ForbiddenException" -> "Permission denied"
      [] cls = "NotFoundException" -> "Resource not found"
      [] cls = "ConflictException" -> "Resource conflict"
      [] cls = "RateLimitException" -> "Too many requests"
      [] cls = "UserNotFoundException" -> "User not found"
      [] cls = "UsernameAlreadyExistsException" -> "User with this email already exists"
      [] cls = "EmailAlreadyExistsException" -> "User with this email already exists"
      [] cls = "InvalidCredentialsException" -> "Invalid email or password"
      [] cls = "InactiveUserException" -> "User account is inactive"
      [] OTHER -> "An unexpected error occurred"

\* ErrorCode.<member>.value: the enum lives in exceptions/enums.py; distinct
\* members carry distinct values, here the member's own name.
ErrorCodeValue(member) == member

\* AuthException.__init__(detail=..., headers=...): Python's `detail or
\* self.detail` and {"X-Error-Code": code.value, **(headers or {})}.
AuthException(cls, detail, headers) ==
    [cls |-> cls,
     status_code |-> StatusCodeOf(cls),
     detail |-> IF IsNone(detail) \/ detail = Some("") THEN DetailOf(cls) ELSE detail[1],
     headers |-> headers @@ ("X-Error-Code" :> ErrorCodeValue(CodeOf(cls)))]

\* app_exception_handler: the JSON body and the response of a raised AuthException
app_exception_handler(path, method, exc) ==
    [status_code |-> exc.status_code,
     body |-> [detail |-> exc.detail,
               code |-> exc.headers["X-Error-Code"],
               path |-> path,
               method |-> method,
               timestamp |-> "utcnow"],
     headers |-> exc.headers]

-----------------------------------------------------------------------------
(* Token service: src/core/security.py                                     *)

SecretKey == "settings.secret_key"

OtherKey == "another-key"

DefaultExpireMinutes == 15

\* timedelta(minutes=m) in milliseconds
Minutes(m) == m * 60 * 1000

\* jose turns a datetime claim into whole seconds: timegm(utctimetuple())
ToSeconds(ms) == ms \div 1000

\* jwt.encode: the claims signed under the key; a datetime exp becomes seconds
jwt_encode(claims, key) ==
    [form |-> "jwt",
     key |-> key,
     claims |-> IF "exp" \in DOMAIN claims
                THEN [c \in DOMAIN claims |->
                        IF c = "exp" THEN ToSeconds(claims[c]) ELSE claims[c]]
                ELSE claims]

\* create_access_token(data, expires_delta) called at time t.  `if
\* expires_delta:` is false for None and for a zero timedelta alike.
create_access_token(data, expires_delta, t) ==
    LET expire == IF ~IsNone(expires_delta) /\ expires_delta[1] # 0
                  THEN t + expires_delta[1]
                  ELSE t + Minutes(DefaultExpireMinutes)
    IN jwt_encode(("exp" :> expire) @@ data, SecretKey)

\* jwt.decode(token, key, algorithms, options={"require": [...]}) at time t.
\* python-jose checks the structure, the signature and, when the claim is
\* there, exp against the clock in whole seconds (exp < now is expired).  Its
\* options are require_<claim> flags; the key "require" is not one of them
\* and changes nothing, so no claim is demanded here.
jwt_decode(token, key, t) ==
    IF token.form # "jwt" THEN [ok |-> FALSE, why |-> "malformed"]
    ELSE IF token.key # key THEN [ok |-> FALSE, why |-> "signature"]
    ELSE IF "exp" \in DOMAIN token.claims /\ token.claims["exp"] < ToSeconds(t)
         THEN [ok |-> FALSE, why |-> "expired"]
    ELSE [ok |-> TRUE, payload |-> token.claims]

NoToken == [form |-> "none"]

\* the exception each raise statement of get_current_user constructs
ResolverException(site) ==
    CASE site = "no_token" ->
             AuthException("NotFoundException", Some("Missing token"), <<>>)
      [] site = "missing_sub" ->
             AuthException("NotFoundException",
                           Some("Invalid token: missing 'sub' claim"), <<>>)
      [] site = "jwt_error" ->
             AuthException("ValidationException", Some("Invalid or expired token"), <<>>)
      [] site = "no_user" ->
             AuthException("NotFoundException", Some("User not found"), <<>>)
      [] site = "inactive" ->
             AuthException("InactiveUserException", Some("Inactive user"), <<>>)

Raise(site) == [kind |-> "raise", site |-> site, exc |-> ResolverException(site)]

\* get_current_user, lines 58-72: the token checks, up to the username
decode_subject(token, t) ==
    IF token = NoToken
    THEN Raise("no_token")
    ELSE LET d == jwt_decode(token, SecretKey, t)
         IN IF ~d.ok
            THEN Raise("jwt_error")
            ELSE IF "sub" \notin DOMAIN d.payload
            THEN Raise("missing_sub")
            ELSE [kind |-> "sub", username |-> d.payload["sub"]]

Usernames == {"alice", "bob"}

\* the users table when the service starts
InitialUsers ==
    {[username |-> "alice", is_active |-> TRUE],
     [username |-> "bob", is_active |-> FALSE]}

\* mutant of first_user: the row is served from a copy made at start-up
first_user_cached(db, username) ==
    LET rows == {r \in InitialUsers : r.username = username}
    IN IF rows = {} THEN None ELSE Some(CHOOSE r \in rows : TRUE)

\* select(User).where(User.username == username) ... .first()
first_user(db, username) ==
    LET rows == {r \in db : r.username = username}
    IN IF rows = {} THEN None ELSE Some(CHOOSE r \in rows : TRUE)

\* mutant of load_user: the is_active check is left out
load_user_any_status(db, username) ==
    LET user == first_user(db, username)
    IN IF IsNone(user) THEN Raise("no_user") ELSE [kind |-> "user", user |-> user[1]]

\* get_current_user, lines 74-81: the lookup and the is_active check
load_user(db, username) ==
    LET user == first_user(db, username)
    IN IF IsNone(user)
       THEN Raise("no_user")
       ELSE IF ~user[1].is_active
       THEN Raise("inactive")
       ELSE [kind |-> "user", user |-> user[1]]

\* get_current_user as one call
get_current_user(token, t, db) ==
    LET s == decode_subject(token, t)
    IN IF s.kind = "raise" THEN s ELSE load_user(db, s.username)

-----------------------------------------------------------------------------
(* Password hashing: src/core/security.py, over the bcrypt package.  A     *)
(* string is a sequence of runs [c, n] of n equal characters, a byte       *)
(* string a sequence of runs [b, n] of n bytes of the character b.         *)

\* len(body)
RECURSIVE ByteLen(_)
ByteLen(bytes) == IF bytes = <<>> THEN 0 ELSE bytes[1].n + ByteLen(Tail(bytes))

\* the bytes one character takes in UTF-8
UTF8Width(c) == IF c = "U+00E9" THEN 2 ELSE 1

\* password.encode("utf-8")
encode_utf8(string) ==
    [i \in DOMAIN string |-> [b |-> string[i].c, n |-> string[i].n * UTF8Width(string[i].c)]]

\* the first k bytes of a byte string
RECURSIVE TakeBytes(_, _)
TakeBytes(bytes, k) ==
    IF bytes = <<>> \/ k = 0 THEN <<>>
    ELSE IF bytes[1].n <= k
    THEN <<bytes[1]>> \o TakeBytes(Tail(bytes), k - bytes[1].n)
    ELSE <<[bytes[1] EXCEPT !.n = k]>>

\* bcrypt reads at most this many bytes of a password
BcryptMaxBytes == 72

\* no version of bcrypt is pinned: releases before 5.0 cut a longer password
\* down to its first 72 bytes, releases from 5.0 on raise ValueError for it
BcryptBuilds == {"truncates", "raises"}

\* the salts bcrypt.gensalt() draws
Salts == {"salt1", "salt2"}

\* bcrypt.hashpw(password, salt): the salt and the digest of the key
\* material; equal digests under one salt mean equal key material
bcrypt_hashpw(password, salt, build) ==
    IF ByteLen(password) > BcryptMaxBytes /\ build = "raises"
    THEN [kind |-> "raise", exc |-> "ValueError"]
    ELSE [kind |-> "return",
          value |-> [salt |-> salt, digest |-> TakeBytes(password, BcryptMaxBytes)]]

\* hash_password(password), salt being what bcrypt.gensalt() returned
hash_password(password, salt, build) == bcrypt_hashpw(encode_utf8(password), salt, build)

\* verify_password(plain_password, hashed_password): bcrypt.checkpw hashes
\* the password under the salt of the stored hash and compares
verify_password(plain_password, hashed_password, build) ==
    LET h == bcrypt_hashpw(encode_utf8(plain_password), hashed_password.salt, build)
    IN IF h.kind = "raise" THEN h
       ELSE [kind |-> "return", value |-> h.value = hashed_password]

EmptyPassword == <<>>

ShortPassword == <<[c |-> "p", n |-> 8]>>

\* 36 two-byte characters: exactly 72 bytes
LimitPassword == <<[c |-> "U+00E9", n |-> 36]>>

\* the same with one more character: 73 bytes
LongPassword == <<[c |-> "U+00E9", n |-> 36], [c |-> "x", n |-> 1]>>

Passwords == {EmptyPassword, ShortPassword, LimitPassword, LongPassword}

\* the users table the routers start from: two accounts registered earlier
InitialDbUsers ==
    {[id |-> 1, username |-> "alice", email |-> "alice@example.com",
      hashed_password |-> [salt |-> "salt1", digest |-> encode_utf8(ShortPassword)],
      is_active |-> TRUE],
     [id |-> 2, username |-> "bob", email |-> "bob@example.com",
      hashed_password |-> [salt |-> "salt2", digest |-> encode_utf8(LimitPassword)],
      is_active |-> TRUE]}

\* the items table the routers start from
InitialItems ==
    {[id |-> 1, title |-> "milk", description |-> None, owner_id |-> 1,
      is_completed |-> FALSE],
     [id |-> 2, title |-> "eggs", description |-> None, owner_id |-> 1,
      is_completed |-> TRUE],
     [id |-> 3, title |-> "tyres", description |-> None, owner_id |-> 2,
      is_completed |-> FALSE]}

\* the uvicorn workers that run a registration at the same time
Workers == {"w1", "w2"}

\* the secrets a caller asks the vault for: one required, one optional
VaultKeys == {"SECRET_KEY", "SMTP_PASSWORD"}

-----------------------------------------------------------------------------
(* The resolver against a moving clock and user store: SpecAuth            *)

MaxHalfSeconds == 4

MaxLateHalfSeconds == 2

\* the instants the clock is observed at: the first half seconds, and the
\* half seconds from the default expiry on
Instants ==
    {k * 500 : k \in 0..MaxHalfSeconds}
    \cup {Minutes(DefaultExpireMinutes) + k * 500 : k \in 0..MaxLateHalfSeconds}

\* the expires_delta arguments tried: none, zero, one second, one second back
ExpiresDeltas == {None, Some(0), Some(1000), Some(-1000)}

Claims(sub, exp) == ("sub" :> sub) @@ ("exp" :> exp)

\* tokens a client can present that create_access_token did not make
ForgedTokens ==
    {[form |-> "garbage"],
     [form |-> "jwt", key |-> OtherKey, claims |-> Claims("alice", 4000)],
     [form |-> "jwt", key |-> SecretKey, claims |-> Claims("carol", 4000)],
     [form |-> "jwt", key |-> SecretKey, claims |-> Claims("alice", 1)],
     [form |-> "jwt", key |-> SecretKey, claims |-> ("sub" :> "alice")],
     [form |-> "jwt", key |-> SecretKey, claims |-> ("sub" :> "bob")],
     [form |-> "jwt", key |-> SecretKey, claims |-> ("exp" :> 4000)],
     [form |-> "jwt", key |-> SecretKey, claims |-> ("iat" :> 0)]}

PresentableTokens ==
    {NoToken} \cup ForgedTokens \cup {issued[i].token : i \in DOMAIN issued}

Idle == [pc |-> "idle"]

PipeIdle ==
    /\ req = None
    /\ pos = 0
    /\ dir = "idle"
    /\ state_rid = None
    /\ local_rid = <<>>
    /\ nuuid = 0
    /\ stream = <<>>
    /\ resp = None
    /\ logs = <<>>
    /\ entered = <<>>
    /\ exited = <<>>
    /\ raised = None
    /\ reads = <<>>

MaxConcurrent == 2

\* the request slots of one client address
Slots == 1..MaxConcurrent

Init ==
    /\ now = 0
    /\ users = InitialUsers
    /\ issued = None
    /\ rq = Idle
    /\ PipeIdle
    /\ inflight = [i \in Slots |-> "idle"]
    /\ handled = 0
    /\ lin = None
    /\ lout = None
    /\ bcrypt_build \in BcryptBuilds
    /\ db_users = InitialDbUsers
    /\ password_of = ("alice" :> ShortPassword) @@ ("bob" :> LimitPassword)
    /\ db_items = InitialItems
    /\ pending = [w \in Workers |-> None]
    /\ background_tasks = <<>>
    /\ app_out = None
    /\ ran = <<>>
    /\ environ = [k \in VaultKeys |-> None]
    /\ _secrets_cache = [k \in VaultKeys |-> None]
    /\ _accessed_secrets = [k \in VaultKeys |-> FALSE]
    /\ vout = None
    /\ first_read = [k \in VaultKeys |-> None]

\* time passes between requests
Tick ==
    /\ rq.pc = "idle"
    /\ \E t \in Instants : t > now /\ now' = t
    /\ UNCHANGED <<users, issued, rq>>
    /\ UNCHANGED <<pipe_vars, rate_vars, log_vars, app_vars, vault_vars>>

\* the user store deletes a row (another session commits a delete)
StoreDelete ==
    /\ rq.pc \in {"idle", "decoded"}
    /\ \E r \in users : users' = users \ {r}
    /\ UNCHANGED <<now, issued, rq>>
    /\ UNCHANGED <<pipe_vars, rate_vars, log_vars, app_vars, vault_vars>>

\* the user store flips a row's is_active
StoreSetActive ==
    /\ rq.pc \in {"idle", "decoded"}
    /\ \E r \in users :
         users' = (users \ {r}) \cup {[r EXCEPT !.is_active = ~r.is_active]}
    /\ UNCHANGED <<now, issued, rq>>
    /\ UNCHANGED <<pipe_vars, rate_vars, log_vars, app_vars, vault_vars>>

\* the user store gains a row: User(...) with is_active defaulting to True
StoreAdd ==
    /\ rq.pc \in {"idle", "decoded"}
    /\ \E u \in Usernames :
         /\ \A r \in users : r.username # u
         /\ users' = users \cup {[username |-> u, is_active |-> TRUE]}
    /\ UNCHANGED <<now, issued, rq>>
    /\ UNCHANGED <<pipe_vars, rate_vars, log_vars, app_vars, vault_vars>>

\* a caller makes a token: create_access_token({"sub": u}, delta)
IssueToken ==
    /\ rq.pc = "idle"
    /\ \E u \in Usernames, d \in ExpiresDeltas :
         issued' = Some([token |-> create_access_token([sub |-> u], d, now),
                         sub |-> u, iat |-> now, delta |-> d])
    /\ UNCHANGED <<now, users, rq>>
    /\ UNCHANGED <<pipe_vars, rate_vars, log_vars, app_vars, vault_vars>>

\* get_current_user is entered with a token and runs to the database query
ResolveDecode ==
    /\ rq.pc = "idle"
    /\ \E tok \in PresentableTokens :
         LET s == decode_subject(tok, now)
         IN rq' = [pc |-> IF s.kind = "raise" THEN "done" ELSE "decoded",
                   token |-> tok, out |-> s]
    /\ UNCHANGED <<now, users, issued>>
    /\ UNCHANGED <<pipe_vars, rate_vars, log_vars, app_vars, vault_vars>>

\* the query runs against the store as it is now, and the call ends
ResolveLookup ==
    /\ rq.pc = "decoded"
    /\ rq' = [rq EXCEPT !.pc = "done", !.out = load_user(users, rq.out.username)]
    /\ UNCHANGED <<now, users, issued>>
    /\ UNCHANGED <<pipe_vars, rate_vars, log_vars, app_vars, vault_vars>>

\* the caller has its answer; the next request can start
ResolveReturn ==
    /\ rq.pc = "done"
    /\ rq' = Idle
    /\ UNCHANGED <<now, users, issued>>
    /\ UNCHANGED <<pipe_vars, rate_vars, log_vars, app_vars, vault_vars>>

NextAuth ==
    \/ Tick
    \/ StoreDelete
    \/ StoreSetActive
    \/ StoreAdd
    \/ IssueToken
    \/ ResolveDecode
    \/ ResolveLookup
    \/ ResolveReturn

SpecAuth == Init /\ [][NextAuth]_vars

-----------------------------------------------------------------------------
(* The assembled application: src/main.py, src/core/middleware.py          *)

\* app.add_middleware(cls): Starlette inserts at the front of
\* user_middleware, so the middleware added last is the outermost
add_middleware(stack, cls) == <<cls>> \o stack

\* add_middlewares(app), in the order of its add_middleware calls
add_middlewares(stack) ==
    LET s1 == add_middleware(stack, "RequestSizeLimiter")
        s2 == add_middleware(s1, "SecurityHeadersMiddleware")
        s3 == add_middleware(s2, "LoggingMiddleware")
        s4 == add_middleware(s3, "RequestIDMiddleware")
        s5 == add_middleware(s4, "SlowAPIMiddleware")
    IN add_middleware(s5, "CORSMiddleware")

\* main.py: app.add_middleware(LoggingMiddleware), then add_middlewares(app)
\* twice.  user_middleware[1] is the outermost stage, the first to see a
\* request; the route handler sits below the last one.
user_middleware == add_middlewares(add_middlewares(add_middleware(<<>>, "LoggingMiddleware")))

Depth == Len(user_middleware)

max_size == 10 * 1024 * 1024

MaxChunks == 2

\* A byte string is a sequence of runs [b, n]: n bytes of value b.  The body
\* chunks a client sends: one byte, max_size - 1 bytes, max_size + 1 bytes.
ClientChunks ==
    {<<[b |-> "a", n |-> 1]>>,
     <<[b |-> "b", n |-> max_size - 1]>>,
     <<[b |-> "c", n |-> max_size + 1]>>}

ChunkSeqs == UNION {[1..n -> ClientChunks] : n \in 0..MaxChunks}

\* b"".join(chunks): the chunks one after the other
RECURSIVE Join(_)
Join(chunks) == IF chunks = <<>> THEN <<>> ELSE Head(chunks) \o Join(Tail(chunks))

AllowedOrigins == {"http://localhost:3000", "http://127.0.0.1:3000"}

AllowedMethods == {"GET", "POST", "PUT", "DELETE", "OPTIONS"}

\* X-Request-ID as sent by the client: absent, empty, or a value
ClientRequestIds == {None, Some(""), Some("client-id")}

\* tokens sent to a protected route: none, garbage, one for active alice,
\* one for inactive bob, one for unknown carol, one without sub
PipelineTokens ==
    {NoToken,
     [form |-> "garbage"],
     [form |-> "jwt", key |-> SecretKey, claims |-> Claims("alice", 4000)],
     [form |-> "jwt", key |-> SecretKey, claims |-> Claims("bob", 4000)],
     [form |-> "jwt", key |-> SecretKey, claims |-> Claims("carol", 4000)],
     [form |-> "jwt", key |-> SecretKey, claims |-> ("exp" :> 4000)]}

\* the requests a client can send
Requests ==
    {r \in [method : {"GET", "POST", "PUT", "OPTIONS"},
            rid : ClientRequestIds,
            origin : {None, Some("http://localhost:3000"), Some("http://evil.example")},
            acrm : {None, Some("GET"), Some("PATCH")},
            clen : {None, Some(max_size), Some(max_size + 1)},
            chunks : ChunkSeqs,
            route : {"public", "protected"},
            token : PipelineTokens] :
        /\ r.method # "OPTIONS" => r.acrm = None
        /\ r.method \notin {"POST", "PUT"} => r.clen = None /\ r.chunks = <<>>
        /\ r.method = "OPTIONS" => r.route = "public"
        /\ r.route = "public" => r.token = NoToken}

PathOf(route) == IF route = "protected" THEN "/api/v1/users/me" ELSE "/liveness"

UuidPool == <<"uuid-1", "uuid-2", "uuid-3", "uuid-4">>

\* str(uuid.uuid4()): the n-th id generated while serving this request
uuid4(n) == UuidPool[n]

\* Python truth of an optional string: neither None nor ""
Truthy(o) == ~IsNone(o) /\ o[1] # ""

\* JSON values as Python holds them: a str, a dict with str keys, a list
JStr(s) == [t |-> "str", v |-> s]

JDict(f) == [t |-> "dict", v |-> f]

JList(q) == [t |-> "list", v |-> q]

\* a Python dict[str, str] as a JSON value
DictOfStr(rec) == JDict([k \in DOMAIN rec |-> JStr(rec[k])])

\* text that is no JSON document, as the name=value pairs written in it
Text(pairs) == [t |-> "text", v |-> pairs]

\* json.dumps(value).encode(): the bytes of one document
json_dumps(value) == <<value>>

\* json.loads(body_str): a value, or JSONDecodeError (None) when the bytes
\* are not one JSON document
json_loads(content) ==
    IF Len(content) = 1 /\ content[1].t # "text" THEN Some(content[1]) ELSE None

\* Python truth of the response_body argument: None, "", {} and [] are false
TruthyValue(o) ==
    /\ ~IsNone(o)
    /\ CASE o[1].t = "str" -> o[1].v # ""
         [] o[1].t = "text" -> TRUE
         [] OTHER -> DOMAIN o[1].v # {}

\* the characters of the key names and keywords the model uses
Spell(word) ==
    CASE word = "password" -> <<"p", "a", "s", "s", "w", "o", "r", "d">>
      [] word = "new_password" ->
           <<"n", "e", "w", "_", "p", "a", "s", "s", "w", "o", "r", "d">>
      [] word = "current_password" ->
           <<"c", "u", "r", "r", "e", "n", "t", "_", "p", "a", "s", "s", "w", "o", "r", "d">>
      [] word = "access_token" ->
           <<"a", "c", "c", "e", "s", "s", "_", "t", "o", "k", "e", "n">>
      [] word = "refresh_token" ->
           <<"r", "e", "f", "r", "e", "s", "h", "_", "t", "o", "k", "e", "n">>
      [] word = "token" -> <<"t", "o", "k", "e", "n">>
      [] word = "jwt" -> <<"j", "w", "t">>
      [] word = "authorization" ->
           <<"a", "u", "t", "h", "o", "r", "i", "z", "a", "t", "i", "o", "n">>
      [] word = "Authorization" ->
           <<"A", "u", "t", "h", "o", "r", "i", "z", "a", "t", "i", "o", "n">>
      [] word = "api_key" -> <<"a", "p", "i", "_", "k", "e", "y">>
      [] word = "API_KEY" -> <<"A", "P", "I", "_", "K", "E", "Y">>
      [] word = "secret" -> <<"s", "e", "c", "r", "e", "t">>
      [] word = "private_key" -> <<"p", "r", "i", "v", "a", "t", "e", "_", "k", "e", "y">>
      [] word = "credit_card" -> <<"c", "r", "e", "d", "i", "t", "_", "c", "a", "r", "d">>
      [] word = "ssn" -> <<"s", "s", "n">>
      [] word = "cvv" -> <<"c", "v", "v">>
      [] word = "pass" -> <<"p", "a", "s", "s">>
      [] word = "key" -> <<"k", "e", "y">>
      [] word = "auth" -> <<"a", "u", "t", "h">>
      [] word = "bearer" -> <<"b", "e", "a", "r", "e", "r">>
      [] word = "token_type" -> <<"t", "o", "k", "e", "n", "_", "t", "y", "p", "e">>
      [] word = "username" -> <<"u", "s", "e", "r", "n", "a", "m", "e">>
      [] word = "items" -> <<"i", "t", "e", "m", "s">>
      [] word = "data" -> <<"d", "a", "t", "a">>
      [] word = "detail" -> <<"d", "e", "t", "a", "i", "l">>
      [] word = "code" -> <<"c", "o", "d", "e">>
      [] word = "path" -> <<"p", "a", "t", "h">>
      [] word = "method" -> <<"m", "e", "t", "h", "o", "d">>
      [] word = "timestamp" -> <<"t", "i", "m", "e", "s", "t", "a", "m", "p">>

UpperCase ==
    <<"A", "B", "C", "D", "E", "F", "G", "H", "I", "J", "K", "L", "M",
      "N", "O", "P", "Q", "R", "S", "T", "U", "V", "W", "X", "Y", "Z">>

LowerCase ==
    <<"a", "b", "c", "d", "e", "f", "g", "h", "i", "j", "k", "l", "m",
      "n", "o", "p", "q", "r", "s", "t", "u", "v", "w", "x", "y", "z">>

\* str.lower(), character by character
lower(chars) ==
    [i \in DOMAIN chars |->
        IF \E j \in DOMAIN UpperCase : UpperCase[j] = chars[i]
        THEN LowerCase[CHOOSE j \in DOMAIN UpperCase : UpperCase[j] = chars[i]]
        ELSE chars[i]]

\* Python's `word in key_lower` on strings
Contains(chars, word) ==
    \E i \in 1..(Len(chars) - Len(word) + 1) :
        SubSeq(chars, i, i + Len(word) - 1) = word

SENSITIVE_KEYS ==
    {"password", "new_password", "current_password", "access_token", "refresh_token",
     "token", "jwt", "authorization", "api_key", "secret", "private_key", "credit_card",
     "ssn", "cvv"}

SENSITIVE_KEYWORDS == {"pass", "token", "secret", "key", "auth", "jwt", "bearer"}

\* is_exact_match or any_sensitive_keyword, for the key k
is_sensitive(k) ==
    LET key_lower == lower(Spell(k))
        any_sensitive_keyword ==
            \E word \in SENSITIVE_KEYWORDS : Contains(key_lower, Spell(word))
        is_exact_match == \E w \in SENSITIVE_KEYS : Spell(w) = key_lower
    IN is_exact_match \/ any_sensitive_keyword

REDACTED == "[REDACTED]"

\* mutant of __redact_sensitive_data: lists are returned as they are
RECURSIVE redact_dicts_only(_)
redact_dicts_only(data) ==
    IF data.t = "dict"
    THEN JDict([k \in DOMAIN data.v |->
                   IF is_sensitive(k) THEN JStr(REDACTED) ELSE redact_dicts_only(data.v[k])])
    ELSE data

\* __redact_sensitive_data(data): dicts and lists are rebuilt, anything else
\* is returned as it is
RECURSIVE _redact_sensitive_data(_)
_redact_sensitive_data(data) ==
    IF data.t = "dict"
    THEN JDict([k \in DOMAIN data.v |->
                   IF is_sensitive(k) THEN JStr(REDACTED)
                   ELSE _redact_sensitive_data(data.v[k])])
    ELSE IF data.t = "list"
    THEN JList([i \in DOMAIN data.v |-> _redact_sensitive_data(data.v[i])])
    ELSE data

\* __get_log_context: request.state.request_id when set, else a generated id
\* (the _request_id context variable is set nowhere else)
final_request_id(state_request_id, n) ==
    IF Truthy(state_request_id) THEN state_request_id[1] ELSE uuid4(n + 1)

\* __get_log_context(request, status_code, detail, response_body): the query
\* string and the detail go into the context as they are; the body is
\* redacted when it is truthy
_get_log_context(query, status_code, detail, response_body, state_request_id, n) ==
    [request_id |-> final_request_id(state_request_id, n),
     query_params |-> IF ~IsNone(query) /\ query[1] # <<>> THEN query ELSE None,
     status_code |-> status_code,
     detail |-> detail,
     response_body |-> IF TruthyValue(response_body)
                       THEN Some(_redact_sensitive_data(response_body[1]))
                       ELSE None]

\* log_response(request, exc, response_body, status_code): the record logged.
\* Every error is logged with logger.error, a success with logger.info.
log_response(is_error, code, detail, state_request_id, n, query, response_body) ==
    LET log_context == _get_log_context(query, code, detail, response_body,
                                        state_request_id, n)
    IN [level |-> IF is_error THEN "ERROR" ELSE "INFO",
        message |-> IF ~is_error THEN "Request succeeded"
                    ELSE IF code >= 500 THEN "Server error"
                    ELSE IF code = 400 THEN "Bad Request"
                    ELSE IF code = 401 THEN "Unauthorized"
                    ELSE IF code = 404 THEN "Not found"
                    ELSE IF code = 409 THEN "Conflict"
                    ELSE "Client error",
        exc_info |-> is_error /\ code >= 500,
        request_id |-> log_context.request_id,
        query_params |-> log_context.query_params,
        status_code |-> log_context.status_code,
        detail |-> log_context.detail,
        response_body |-> log_context.response_body]

SetHeader(headers, name, value) == (name :> value) @@ headers

\* Response(content, status_code, headers): init_headers adds content-length
\* unless the headers given carry one; the body is sent as one chunk.  `by`
\* records who built the response.
Response(by, status_code, headers, content) ==
    [by |-> by,
     status_code |-> status_code,
     headers |-> headers @@ ("content-length" :> Len(content)),
     body |-> <<content>>]

Stage == user_middleware[pos]

Entering(cls) == dir = "down" /\ pos \in 1..Depth /\ Stage = cls

Exiting(cls) == dir = "up" /\ pos \in 1..Depth /\ Stage = cls

\* await call_next(request): control passes to the next stage inward
CallNext ==
    /\ pos' = pos + 1
    /\ dir' = "down"
    /\ entered' = Append(entered, Stage)

\* return response: control passes to the next stage outward
ReturnResponse ==
    /\ pos' = pos - 1
    /\ dir' = "up"
    /\ exited' = Append(exited, Stage)

\* an exception leaves the dispatch: control passes outward, no response
RaiseOut ==
    /\ pos' = pos - 1
    /\ dir' = "raise"
    /\ entered' = Append(entered, Stage)

\* a client sends a request
NewRequest ==
    /\ dir = "idle"
    /\ \E r \in Requests :
         /\ req' = Some(r)
         /\ stream' = r.chunks
    /\ pos' = 1
    /\ dir' = "down"
    /\ state_rid' = None
    /\ local_rid' = <<>>
    /\ nuuid' = 0
    /\ resp' = None
    /\ logs' = <<>>
    /\ entered' = <<>>
    /\ exited' = <<>>
    /\ raised' = None
    /\ reads' = <<>>
    /\ UNCHANGED <<auth_vars, rate_vars, log_vars, app_vars, vault_vars>>

\* CORSMiddleware.__call__ on the way in: without an Origin header the
\* request passes untouched; a preflight (OPTIONS with
\* Access-Control-Request-Method) is answered here and goes no further
CORS_enter ==
    /\ Entering("CORSMiddleware")
    /\ LET r == req[1]
           preflight == ~IsNone(r.origin) /\ r.method = "OPTIONS" /\ ~IsNone(r.acrm)
           allowed == r.origin[1] \in AllowedOrigins /\ r.acrm[1] \in AllowedMethods
       IN IF preflight
          THEN /\ resp' = Some(Response("cors_preflight",
                                        IF allowed THEN 200 ELSE 400,
                                        IF r.origin[1] \in AllowedOrigins
                                        THEN "Access-Control-Allow-Origin" :> r.origin[1]
                                        ELSE <<>>,
                                        <<Text(<<>>)>>))
               /\ pos' = pos - 1
               /\ dir' = "up"
               /\ entered' = Append(entered, Stage)
               /\ UNCHANGED exited
          ELSE /\ CallNext
               /\ UNCHANGED <<resp, exited>>
    /\ UNCHANGED <<req, state_rid, local_rid, nuuid, stream, logs>>
    /\ UNCHANGED <<raised, reads>>
    /\ UNCHANGED <<auth_vars, rate_vars, log_vars, app_vars, vault_vars>>

\* CORSMiddleware on the way out: simple_response adds the CORS headers to
\* the response of a request that carried an Origin
CORS_exit ==
    /\ Exiting("CORSMiddleware")
    /\ LET r == req[1]
           h0 == resp[1].headers
           h1 == IF IsNone(r.origin) THEN h0
                 ELSE SetHeader(h0, "Access-Control-Allow-Credentials", "true")
           h2 == IF ~IsNone(r.origin) /\ r.origin[1] \in AllowedOrigins
                 THEN SetHeader(h1, "Access-Control-Allow-Origin", r.origin[1])
                 ELSE h1
       IN resp' = Some([resp[1] EXCEPT !.headers = h2])
    /\ ReturnResponse
    /\ UNCHANGED <<req, state_rid, local_rid, nuuid, stream, logs, entered>>
    /\ UNCHANGED <<raised, reads>>
    /\ UNCHANGED <<auth_vars, rate_vars, log_vars, app_vars, vault_vars>>

\* SlowAPIMiddleware.dispatch: no default limit is configured on the limiter
\* and no route is decorated, so every request is passed on
SlowAPI_enter ==
    /\ Entering("SlowAPIMiddleware")
    /\ CallNext
    /\ UNCHANGED <<req, state_rid, local_rid, nuuid, stream, resp, logs, exited>>
    /\ UNCHANGED <<raised, reads>>
    /\ UNCHANGED <<auth_vars, rate_vars, log_vars, app_vars, vault_vars>>

SlowAPI_exit ==
    /\ Exiting("SlowAPIMiddleware")
    /\ ReturnResponse
    /\ UNCHANGED <<req, state_rid, local_rid, nuuid, stream, resp, logs, entered>>
    /\ UNCHANGED <<raised, reads>>
    /\ UNCHANGED <<auth_vars, rate_vars, log_vars, app_vars, vault_vars>>

\* mutant of request_id_for: only an absent header is replaced
request_id_for_if_none(header, n) == IF ~IsNone(header) THEN header[1] ELSE uuid4(n + 1)

\* request.headers.get("X-Request-ID") or str(uuid.uuid4()), after n earlier
\* uuid4 calls
request_id_for(header, n) == IF Truthy(header) THEN header[1] ELSE uuid4(n + 1)

\* RequestIDMiddleware.dispatch up to call_next
RequestID_enter ==
    /\ Entering("RequestIDMiddleware")
    /\ LET request_id == request_id_for(req[1].rid, nuuid)
       IN /\ local_rid' = (pos :> request_id) @@ local_rid
          /\ state_rid' = Some(request_id)
          /\ nuuid' = IF Truthy(req[1].rid) THEN nuuid ELSE nuuid + 1
    /\ CallNext
    /\ UNCHANGED <<req, stream, resp, logs, exited>>
    /\ UNCHANGED <<raised, reads>>
    /\ UNCHANGED <<auth_vars, rate_vars, log_vars, app_vars, vault_vars>>

\* RequestIDMiddleware.dispatch after call_next
RequestID_exit ==
    /\ Exiting("RequestIDMiddleware")
    /\ resp' = Some([resp[1] EXCEPT
                       !.headers = SetHeader(@, "X-Request-ID", local_rid[pos])])
    /\ ReturnResponse
    /\ UNCHANGED <<req, state_rid, local_rid, nuuid, stream, logs, entered>>
    /\ UNCHANGED <<raised, reads>>
    /\ UNCHANGED <<auth_vars, rate_vars, log_vars, app_vars, vault_vars>>

LoggingMiddleware_enter ==
    /\ Entering("LoggingMiddleware")
    /\ CallNext
    /\ UNCHANGED <<req, state_rid, local_rid, nuuid, stream, resp, logs, exited>>
    /\ UNCHANGED <<raised, reads>>
    /\ UNCHANGED <<auth_vars, rate_vars, log_vars, app_vars, vault_vars>>

\* response_json or body_str[:1000]: the decoded document when it is truthy,
\* else the text of the body; a failed decode and an empty document leave
\* the text, an empty body leaves ""
logged_body(body) ==
    LET response_json == json_loads(body)
    IN IF TruthyValue(response_json) THEN response_json
       ELSE IF body = <<>> THEN None
       ELSE IF body[1].t = "text" THEN Some(body[1])
       ELSE Some(Text(<<>>))

\* mutant of rebuilt_response: the headers of the downstream response are
\* not passed on
rebuilt_response_bare(response) ==
    Response(response.by, response.status_code, <<>>, Join(response.body))

\* body = b"" + every chunk of response.body_iterator, then
\* Response(content=body, status_code=..., headers=dict(response.headers))
rebuilt_response(response) ==
    Response(response.by, response.status_code, response.headers, Join(response.body))

\* LoggingMiddleware.dispatch after call_next: an error response is returned
\* as it is; a success is read, logged and built again from its parts
LoggingMiddleware_exit ==
    /\ Exiting("LoggingMiddleware")
    /\ IF resp[1].status_code >= 400
       THEN UNCHANGED <<resp, logs, nuuid>>
       ELSE /\ logs' = Append(logs, log_response(FALSE, resp[1].status_code, None,
                                                 state_rid, nuuid, None,
                                                 logged_body(Join(resp[1].body))))
            /\ nuuid' = IF Truthy(state_rid) THEN nuuid ELSE nuuid + 1
            /\ resp' = Some(rebuilt_response(resp[1]))
    /\ ReturnResponse
    /\ UNCHANGED <<req, state_rid, local_rid, stream, entered>>
    /\ UNCHANGED <<raised, reads>>
    /\ UNCHANGED <<auth_vars, rate_vars, log_vars, app_vars, vault_vars>>

SecurityHeaders_enter ==
    /\ Entering("SecurityHeadersMiddleware")
    /\ CallNext
    /\ UNCHANGED <<req, state_rid, local_rid, nuuid, stream, resp, logs, exited>>
    /\ UNCHANGED <<raised, reads>>
    /\ UNCHANGED <<auth_vars, rate_vars, log_vars, app_vars, vault_vars>>

HardeningHeaders ==
    ("X-Content-Type-Options" :> "nosniff")
    @@ ("X-Frame-Options" :> "DENY")
    @@ ("X-XSS-Protection" :> "1; mode=block")
    @@ ("Referrer-Policy" :> "strict-origin-when-cross-origin")
    @@ ("Cross-Origin-Opener-Policy" :> "same-origin")

\* SecurityHeadersMiddleware.dispatch after call_next
SecurityHeaders_exit ==
    /\ Exiting("SecurityHeadersMiddleware")
    /\ resp' = Some([resp[1] EXCEPT !.headers = HardeningHeaders @@ @])
    /\ ReturnResponse
    /\ UNCHANGED <<req, state_rid, local_rid, nuuid, stream, logs, entered>>
    /\ UNCHANGED <<raised, reads>>
    /\ UNCHANGED <<auth_vars, rate_vars, log_vars, app_vars, vault_vars>>

\* mutant of read_stream: the whole stream is read before its length is
\* compared with the limit
RECURSIVE read_stream_then_check(_, _, _, _)
read_stream_then_check(chunks, body, nread, limit) ==
    IF chunks = <<>>
    THEN [raised |-> ByteLen(body) > limit, read |-> nread, body |-> body]
    ELSE read_stream_then_check(Tail(chunks), body \o Head(chunks), nread + 1, limit)

\* the streaming loop of RequestSizeLimiter.dispatch: body += chunk, then
\* len(body) > max_size raises
RECURSIVE read_stream(_, _, _, _)
read_stream(chunks, body, nread, limit) ==
    IF chunks = <<>> THEN [raised |-> FALSE, read |-> nread, body |-> body]
    ELSE LET grown == body \o Head(chunks)
         IN IF ByteLen(grown) > limit
            THEN [raised |-> TRUE, read |-> nread + 1, body |-> grown]
            ELSE read_stream(Tail(chunks), grown, nread + 1, limit)

\* mutant of size_limit: the Content-Length header is not looked at
size_limit_stream_only(method, content_length, chunks, limit) ==
    IF method \notin {"POST", "PUT", "PATCH"}
    THEN [raised |-> FALSE, read |-> 0, body |-> <<>>, passed_on |-> chunks]
    ELSE LET r == read_stream(chunks, <<>>, 0, limit)
         IN [raised |-> r.raised, read |-> r.read, body |-> r.body,
             passed_on |-> <<r.body>>]

\* mutant of size_limit: the body read is not put back on the request
size_limit_no_reinject(method, content_length, chunks, limit) ==
    IF method \notin {"POST", "PUT", "PATCH"}
    THEN [raised |-> FALSE, read |-> 0, body |-> <<>>, passed_on |-> chunks]
    ELSE IF ~IsNone(content_length) /\ content_length[1] > limit
    THEN [raised |-> TRUE, read |-> 0, body |-> <<>>, passed_on |-> chunks]
    ELSE LET r == read_stream(chunks, <<>>, 0, limit)
         IN [raised |-> r.raised, read |-> r.read, body |-> r.body,
             passed_on |-> << <<>> >>]

\* RequestSizeLimiter.dispatch up to call_next.  passed_on is what the next
\* reader of the request gets: the untouched stream, or request._body as
\* one chunk.
size_limit(method, content_length, chunks, limit) ==
    IF method \notin {"POST", "PUT", "PATCH"}
    THEN [raised |-> FALSE, read |-> 0, body |-> <<>>, passed_on |-> chunks]
    ELSE IF ~IsNone(content_length) /\ content_length[1] > limit
    THEN [raised |-> TRUE, read |-> 0, body |-> <<>>, passed_on |-> chunks]
    ELSE LET r == read_stream(chunks, <<>>, 0, limit)
         IN [raised |-> r.raised, read |-> r.read, body |-> r.body,
             passed_on |-> <<r.body>>]

\* RequestSizeLimiter.dispatch: HTTPException(413) is raised out of the
\* middleware; otherwise the body read is put back as request._body
RequestSizeLimiter_enter ==
    /\ Entering("RequestSizeLimiter")
    /\ LET r == size_limit(req[1].method, req[1].clen, stream, max_size)
       IN /\ reads' = (pos :> r.read) @@ reads
          /\ IF r.raised
             THEN /\ RaiseOut
                  /\ raised' = Some([at |-> pos, status_code |-> Some(413)])
                  /\ UNCHANGED stream
             ELSE /\ CallNext
                  /\ stream' = r.passed_on
                  /\ UNCHANGED raised
    /\ UNCHANGED <<req, state_rid, local_rid, nuuid, resp, logs, exited>>
    /\ UNCHANGED <<auth_vars, rate_vars, log_vars, app_vars, vault_vars>>

RequestSizeLimiter_exit ==
    /\ Exiting("RequestSizeLimiter")
    /\ ReturnResponse
    /\ UNCHANGED <<req, state_rid, local_rid, nuuid, stream, resp, logs, entered>>
    /\ UNCHANGED <<raised, reads>>
    /\ UNCHANGED <<auth_vars, rate_vars, log_vars, app_vars, vault_vars>>

AtHandler == dir = "down" /\ pos = Depth + 1

\* the route handler returns: a 200 JSON response
Handler_ok ==
    /\ AtHandler
    /\ req[1].method # "OPTIONS"
    /\ req[1].route = "protected" => get_current_user(req[1].token, now, users).kind = "user"
    /\ resp' = Some(Response("handler", 200, "content-type" :> "application/json",
                             json_dumps(DictOfStr([data |-> "ok"]))))
    /\ pos' = Depth
    /\ dir' = "up"
    /\ UNCHANGED <<req, state_rid, local_rid, nuuid, stream, logs, entered, exited>>
    /\ UNCHANGED <<raised, reads>>
    /\ UNCHANGED <<auth_vars, rate_vars, log_vars, app_vars, vault_vars>>

\* Depends(get_current_user) raises an AuthException: app_exception_handler
\* logs it and renders it
Handler_auth_error ==
    /\ AtHandler
    /\ req[1].method # "OPTIONS"
    /\ req[1].route = "protected"
    /\ LET u == get_current_user(req[1].token, now, users)
       IN /\ u.kind = "raise"
          /\ LET r == app_exception_handler(PathOf(req[1].route), req[1].method, u.exc)
             IN /\ logs' = Append(logs, log_response(TRUE, u.exc.status_code,
                                                     Some(u.exc.detail), state_rid, nuuid,
                                                     None, Some(DictOfStr(r.body))))
                /\ nuuid' = IF Truthy(state_rid) THEN nuuid ELSE nuuid + 1
                /\ resp' = Some(Response("app_exception_handler", r.status_code,
                                         r.headers, json_dumps(DictOfStr(r.body))))
    /\ pos' = Depth
    /\ dir' = "up"
    /\ UNCHANGED <<req, state_rid, local_rid, stream, entered, exited>>
    /\ UNCHANGED <<raised, reads>>
    /\ UNCHANGED <<auth_vars, rate_vars, log_vars, app_vars, vault_vars>>

\* a plain HTTPException (405 from the router, 404 from a handler) is
\* rendered by the framework's own handler: {"detail": ...}, nothing logged
Handler_http_exception ==
    /\ AtHandler
    /\ \E status \in {404, 405} :
         /\ status = 405 <=> req[1].method = "OPTIONS"
         /\ req[1].route = "protected" =>
                get_current_user(req[1].token, now, users).kind = "user"
         /\ resp' = Some(Response("http_exception_handler", status,
                                  "content-type" :> "application/json",
                                  json_dumps(DictOfStr(
                                      [detail |-> IF status = 405 THEN "Method Not Allowed"
                                                  ELSE "Item not found"]))))
    /\ pos' = Depth
    /\ dir' = "up"
    /\ UNCHANGED <<req, state_rid, local_rid, nuuid, stream, logs, entered, exited>>
    /\ UNCHANGED <<raised, reads>>
    /\ UNCHANGED <<auth_vars, rate_vars, log_vars, app_vars, vault_vars>>

\* the handler fails with an exception no handler is registered for (the
\* database is unreachable): it leaves the application unhandled
Handler_crash ==
    /\ AtHandler
    /\ req[1].method # "OPTIONS"
    /\ pos' = Depth
    /\ dir' = "raise"
    /\ raised' = Some([at |-> Depth + 1, status_code |-> None])
    /\ UNCHANGED <<req, state_rid, local_rid, nuuid, stream, resp, logs, entered, exited>>
    /\ UNCHANGED reads
    /\ UNCHANGED <<auth_vars, rate_vars, log_vars, app_vars, vault_vars>>

\* an exception passes a dispatch that called call_next: none of the
\* middlewares catches it (LoggingMiddleware re-raises)
Propagate ==
    /\ dir = "raise"
    /\ pos \in 1..Depth
    /\ pos' = pos - 1
    /\ UNCHANGED <<req, dir, state_rid, local_rid, nuuid, stream, resp, logs, entered,
                   exited>>
    /\ UNCHANGED <<raised, reads>>
    /\ UNCHANGED <<auth_vars, rate_vars, log_vars, app_vars, vault_vars>>

\* ServerErrorMiddleware, outside every user middleware, answers an escaped
\* exception with a bare 500
ServerError ==
    /\ dir = "raise"
    /\ pos = 0
    /\ resp' = Some(Response("server_error", 500, "content-type" :> "text/plain",
                             <<Text(<<>>)>>))
    /\ dir' = "sent"
    /\ UNCHANGED <<req, pos, state_rid, local_rid, nuuid, stream, logs, entered, exited>>
    /\ UNCHANGED <<raised, reads>>
    /\ UNCHANGED <<auth_vars, rate_vars, log_vars, app_vars, vault_vars>>

\* the response leaves the application
Send ==
    /\ dir = "up"
    /\ pos = 0
    /\ dir' = "sent"
    /\ UNCHANGED <<req, pos, state_rid, local_rid, nuuid, stream, resp, logs, entered,
                   exited>>
    /\ UNCHANGED <<raised, reads>>
    /\ UNCHANGED <<auth_vars, rate_vars, log_vars, app_vars, vault_vars>>

\* the response is out: the per-request context is discarded
Close ==
    /\ dir = "sent"
    /\ req' = None
    /\ pos' = 0
    /\ dir' = "idle"
    /\ state_rid' = None
    /\ local_rid' = <<>>
    /\ nuuid' = 0
    /\ stream' = <<>>
    /\ resp' = None
    /\ logs' = <<>>
    /\ entered' = <<>>
    /\ exited' = <<>>
    /\ raised' = None
    /\ reads' = <<>>
    /\ UNCHANGED <<auth_vars, rate_vars, log_vars, app_vars, vault_vars>>

Next ==
    \/ NewRequest
    \/ CORS_enter
    \/ CORS_exit
    \/ SlowAPI_enter
    \/ SlowAPI_exit
    \/ RequestID_enter
    \/ RequestID_exit
    \/ LoggingMiddleware_enter
    \/ LoggingMiddleware_exit
    \/ SecurityHeaders_enter
    \/ SecurityHeaders_exit
    \/ RequestSizeLimiter_enter
    \/ RequestSizeLimiter_exit
    \/ Handler_ok
    \/ Handler_auth_error
    \/ Handler_http_exception
    \/ Handler_crash
    \/ Propagate
    \/ ServerError
    \/ Send
    \/ Close

Spec == Init /\ [][Next]_vars

-----------------------------------------------------------------------------
(* Concurrent requests of one client address to one route: SpecRate        *)

MaxRequests == 51

\* Limiter(key_func=get_remote_address): no default_limits are given
default_limits == {}

\* the limits @limiter.limit attaches to a route: no route is decorated
route_limits == {}

\* the limits SlowAPIMiddleware checks a request against
limits_for_request == route_limits \cup default_limits

\* a request of the client arrives while the window is open
Arrive(i) ==
    /\ inflight[i] = "idle"
    /\ handled + Cardinality({j \in Slots : inflight[j] # "idle"}) < MaxRequests
    /\ inflight' = [inflight EXCEPT ![i] = "limiter"]
    /\ UNCHANGED handled
    /\ UNCHANGED <<auth_vars, pipe_vars, log_vars, app_vars, vault_vars>>

\* SlowAPIMiddleware.dispatch: with no limit to check, no counter is read or
\* written and the request is passed on
RateCheck(i) ==
    /\ inflight[i] = "limiter"
    /\ limits_for_request = {}
    /\ inflight' = [inflight EXCEPT ![i] = "handler"]
    /\ UNCHANGED handled
    /\ UNCHANGED <<auth_vars, pipe_vars, log_vars, app_vars, vault_vars>>

\* the route handler runs and answers
RateHandle(i) ==
    /\ inflight[i] = "handler"
    /\ inflight' = [inflight EXCEPT ![i] = "idle"]
    /\ handled' = handled + 1
    /\ UNCHANGED <<auth_vars, pipe_vars, log_vars, app_vars, vault_vars>>

NextRate ==
    \/ \E i \in Slots : Arrive(i)
    \/ \E i \in Slots : RateCheck(i)
    \/ \E i \in Slots : RateHandle(i)

SpecRate == Init /\ [][NextRate]_vars

-----------------------------------------------------------------------------
(* The logger and the error renderer on their inputs: SpecLog              *)

MaxDepth == 3

PayloadKeys == {"password", "Authorization", "API_KEY", "token_type", "username"}

Leaf == JStr("v")

\* JSON values nested up to d deep: a string, an object with one key, an
\* object with a key and a username beside it, a list of one or two values
RECURSIVE Payloads(_)
Payloads(d) ==
    IF d = 0 THEN {Leaf}
    ELSE LET P == Payloads(d - 1)
         IN {Leaf}
            \cup {JDict(k :> v) : k \in PayloadKeys, v \in P}
            \cup {JDict((k :> v) @@ ("username" :> Leaf)) :
                      k \in PayloadKeys \ {"username"}, v \in P}
            \cup {JList(<<v>>) : v \in P}
            \cup {JList(<<Leaf, v>>) : v \in P}

Secret == "s3cret"

\* query strings, as their name=value pairs
Queries == {None, Some(<<>>), Some(<<<<"items", "v">>>>), Some(<<<<"token", Secret>>>>)}

\* response bodies a handler produces: a token object, a list of objects,
\* an empty object, text that is no JSON, nothing
ResponseBodies ==
    {json_dumps(JDict(("access_token" :> JStr(Secret)) @@ ("token_type" :> JStr("bearer")))),
     json_dumps(JList(<<JDict(("username" :> JStr("alice")) @@ ("password" :> JStr(Secret)))>>)),
     json_dumps(JDict(<<>>)),
     <<Text(<<<<"password", Secret>>>>)>>,
     <<>>}

\* the arguments exceptions are constructed with
Details == {None, Some(""), Some("Incorrect username or password")}

HeaderArgs == {<<>>, "WWW-Authenticate" :> "Bearer"}

\* _redact_sensitive_data is applied to a payload
Redact ==
    /\ lin = None
    /\ \E data \in Payloads(MaxDepth) :
         /\ lin' = Some([op |-> "redact", data |-> data])
         /\ lout' = Some([result |-> _redact_sensitive_data(data)])
    /\ UNCHANGED <<auth_vars, pipe_vars, rate_vars, app_vars, vault_vars>>

\* LoggingMiddleware logs a success: log_response(request,
\* response_body=response_json or body_str[:1000], status_code=...)
LogSuccess ==
    /\ lin = None
    /\ \E body \in ResponseBodies, query \in Queries :
         /\ lin' = Some([op |-> "log_success", body |-> body, query |-> query])
         /\ lout' = Some([record |-> log_response(FALSE, 200, None, Some("client-id"), 0,
                                                  query, logged_body(body))])
    /\ UNCHANGED <<auth_vars, pipe_vars, rate_vars, app_vars, vault_vars>>

\* an AuthException is constructed and raised; app_exception_handler logs
\* and renders it
RenderError ==
    /\ lin = None
    /\ \E cls \in ExceptionClasses, detail \in Details, headers \in HeaderArgs,
          query \in Queries :
         LET e == AuthException(cls, detail, headers)
             r == app_exception_handler("/api/v1/auth/token", "POST", e)
         IN /\ lin' = Some([op |-> "render_error", exc |-> e, query |-> query])
            /\ lout' = Some([record |-> log_response(TRUE, e.status_code, Some(e.detail),
                                                     Some("client-id"), 0, query,
                                                     Some(DictOfStr(r.body))),
                             response |-> r])
    /\ UNCHANGED <<auth_vars, pipe_vars, rate_vars, app_vars, vault_vars>>

\* the call is over
LogReturn ==
    /\ lin # None
    /\ lin' = None
    /\ lout' = None
    /\ UNCHANGED <<auth_vars, pipe_vars, rate_vars, app_vars, vault_vars>>

NextLog ==
    \/ Redact
    \/ LogSuccess
    \/ RenderError
    \/ LogReturn

SpecLog == Init /\ [][NextLog]_vars

-----------------------------------------------------------------------------
(* The account routes and the background tasks: src/routers/auth.py,       *)
(* src/tasks/worker.py.  SpecApp                                           *)

access_token_expire_minutes == 30

\* what the server answers when a handler raises anything that is no
\* HTTPException: Starlette's ServerErrorMiddleware
InternalServerError ==
    [status_code |-> 500, body |-> [text |-> "Internal Server Error"], headers |-> <<>>]

\* background_tasks.add_task(func, *args)
Task(func, args) == [func |-> func, args |-> args]

\* the id the database gives a new row
NextId(table) ==
    IF table = {} THEN 1
    ELSE 1 + (CHOOSE m \in {r.id : r \in table} : \A r \in table : r.id <= m)

\* login, lines 92-111, called at time t
login(db, username, password, t, build) ==
    LET user == first_user(db, username)
        denied ==
            [response |->
                 app_exception_handler("/api/v1/auth/token", "POST",
                     AuthException("UnauthorizedException",
                                   Some("Incorrect username or password"),
                                   "WWW-Authenticate" :> "Bearer")),
             tasks |-> <<>>]
    IN IF IsNone(user) THEN denied
       ELSE LET verified == verify_password(password, user[1].hashed_password, build)
            IN IF verified.kind = "raise"
               THEN [response |-> InternalServerError, tasks |-> <<>>]
               ELSE IF ~verified.value THEN denied
               ELSE [response |->
                         [status_code |-> 200,
                          body |-> [access_token |->
                                        create_access_token(
                                            [sub |-> user[1].username],
                                            Some(Minutes(access_token_expire_minutes)), t),
                                    token_type |-> "bearer"],
                          headers |-> <<>>],
                     tasks |-> <<Task("log_user_action",
                                      <<user[1].username, "LOGIN",
                                        "successful authentication">>)>>]

\* register, lines 50-56: the User object that db.add receives
register_add(user, salt, build) ==
    LET hashed == hash_password(user.password, salt, build)
    IN IF hashed.kind = "raise" THEN hashed
       ELSE [kind |-> "return",
             value |-> [username |-> user.username, email |-> user.email,
                        hashed_password |-> hashed.value]]

\* the unique constraints on users.username and users.email
IntegrityError(db, db_user) ==
    \E r \in db : r.username = db_user.username \/ r.email = db_user.email

\* register, lines 58-74: the commit against the table as it is then
register_commit(db, user, db_user) ==
    IF IntegrityError(db, db_user)
    THEN [db |-> db,
          response |->
              app_exception_handler("/api/v1/auth/register", "POST",
                  IF ~IsNone(first_user(db, user.username))
                  THEN AuthException("UsernameAlreadyExistsException",
                                     Some("Username already exists"), <<>>)
                  ELSE AuthException("EmailAlreadyExistsException",
                                     Some("Email already exists"), <<>>)),
          tasks |-> <<>>]
    ELSE LET row == [id |-> NextId(db), username |-> db_user.username,
                     email |-> db_user.email,
                     hashed_password |-> db_user.hashed_password, is_active |-> TRUE]
         IN [db |-> db \cup {row},
             response |->
                 [status_code |-> 201,
                  body |-> [id |-> row.id, username |-> row.username,
                            email |-> row.email, is_active |-> row.is_active,
                            created_at |-> "utcnow"],
                  headers |-> <<>>],
             tasks |-> <<Task("send_welcome_email", <<user.email, user.username>>),
                         Task("log_user_action",
                              <<user.username, "REGISTER", user.email>>)>>]

\* the six functions of tasks/worker.py
TaskFunctions ==
    {"send_welcome_email", "log_user_action", "send_item_notification",
     "process_item_completion", "send_batch_email", "cleanup_old_data"}

\* the messages the body of each function logs with logger.info, in order
InfoMessages(func) ==
    CASE func = "send_welcome_email" -> <<"[TASK] Welcome email sent">>
      [] func = "log_user_action" -> <<"[AUDIT] User performed action">>
      [] func = "send_item_notification" -> <<"[TASK] Notification sent">>
      [] func = "process_item_completion" -> <<"[TASK] Item marked as completed">>
      [] func = "send_batch_email" -> <<"[TASK] Batch email sent">>
      [] func = "cleanup_old_data" ->
             <<"[TASK] Data cleanup started", "[TASK] Data cleanup completed">>

\* the message each function's except clause logs with logger.error
ErrorMessage(func) ==
    CASE func = "send_welcome_email" -> "Failed to send welcome email"
      [] func = "log_user_action" -> "Failed to log user action"
      [] func = "send_item_notification" -> "Failed to send notification"
      [] func = "process_item_completion" -> "Failed to process item completion"
      [] func = "send_batch_email" -> "Failed to send batch emails"
      [] func = "cleanup_old_data" -> "Failed to cleanup old data"

LogRecord(level, message) == [level |-> level, message |-> message]

\* mutant of worker: the except clause logs and raises again
worker_reraise(func, args, fail_at) ==
    [records |->
         [i \in 1..(IF fail_at = 0 THEN Len(InfoMessages(func)) ELSE fail_at) |->
              IF fail_at # 0 /\ i = fail_at
              THEN LogRecord("ERROR", ErrorMessage(func))
              ELSE LogRecord("INFO", InfoMessages(func)[i])],
     raised |-> fail_at # 0]

\* one call of a task function: try: the body, which builds and logs its
\* messages one after the other; except Exception: logger.error.  fail_at
\* is 0 when nothing fails and k when an exception is raised while the k-th
\* message is built or logged.
worker(func, args, fail_at) ==
    [records |->
         [i \in 1..(IF fail_at = 0 THEN Len(InfoMessages(func)) ELSE fail_at) |->
              IF fail_at # 0 /\ i = fail_at
              THEN LogRecord("ERROR", ErrorMessage(func))
              ELSE LogRecord("INFO", InfoMessages(func)[i])],
     raised |-> FALSE]

\* where the body of a function can fail
FailurePoints(func) == 0..Len(InfoMessages(func))

\* the registrations clients send
UserCreates ==
    [username : {"alice", "carol"},
     email : {"alice@example.com", "carol@example.com"},
     password : Passwords]

\* the usernames clients log in with; nobody registers dave
LoginUsernames == {"alice", "bob", "carol", "dave"}

\* the arguments the task functions are called with directly
DirectArgs(func) ==
    CASE func = "send_welcome_email" -> <<"alice@example.com", "alice">>
      [] func = "log_user_action" -> <<"alice", "LOGIN", None>>
      [] func = "send_item_notification" ->
             <<"alice@example.com", "alice", "milk", "created">>
      [] func = "process_item_completion" -> <<1, "alice", "milk">>
      [] func = "send_batch_email" -> <<<<"alice@example.com">>, "subject", "body">>
      [] func = "cleanup_old_data" -> <<>>

AppIdle == app_out = None /\ background_tasks = <<>>

\* a worker takes a registration up to db.add; hash_password may raise
RegisterAdd(w) ==
    /\ AppIdle
    /\ pending[w] = None
    /\ \E user \in UserCreates, salt \in Salts :
         LET added == register_add(user, salt, bcrypt_build)
         IN IF added.kind = "raise"
            THEN /\ app_out' = Some([op |-> "register", user |-> user,
                                     db_before |-> db_users,
                                     response |-> InternalServerError, tasks |-> <<>>])
                 /\ pending' = pending
            ELSE /\ pending' = [pending EXCEPT
                                  ![w] = Some([user |-> user, db_user |-> added.value])]
                 /\ app_out' = app_out
    /\ ran' = <<>>
    /\ UNCHANGED <<bcrypt_build, db_users, password_of, db_items, background_tasks>>
    /\ UNCHANGED <<auth_vars, pipe_vars, rate_vars, log_vars, vault_vars>>

\* the worker commits, against whatever the other worker committed meanwhile
RegisterCommit(w) ==
    /\ AppIdle
    /\ pending[w] # None
    /\ LET p == pending[w][1]
           c == register_commit(db_users, p.user, p.db_user)
       IN /\ db_users' = c.db
          /\ password_of' = IF c.response.status_code = 201
                            THEN (p.user.username :> p.user.password) @@ password_of
                            ELSE password_of
          /\ background_tasks' = c.tasks
          /\ app_out' = Some([op |-> "register", user |-> p.user,
                              db_before |-> db_users,
                              response |-> c.response, tasks |-> c.tasks])
    /\ pending' = [pending EXCEPT ![w] = None]
    /\ ran' = <<>>
    /\ UNCHANGED <<bcrypt_build, db_items>>
    /\ UNCHANGED <<auth_vars, pipe_vars, rate_vars, log_vars, vault_vars>>

\* POST /api/v1/auth/token
Login ==
    /\ AppIdle
    /\ \E username \in LoginUsernames, password \in Passwords :
         LET l == login(db_users, username, password, now, bcrypt_build)
         IN /\ app_out' = Some([op |-> "login", username |-> username,
                                 password |-> password, response |-> l.response,
                                 tasks |-> l.tasks])
            /\ background_tasks' = l.tasks
    /\ ran' = <<>>
    /\ UNCHANGED <<bcrypt_build, db_users, password_of, db_items, pending>>
    /\ UNCHANGED <<auth_vars, pipe_vars, rate_vars, log_vars, vault_vars>>

\* verify_password(p1, hash_password(p2))
HashAndVerify ==
    /\ AppIdle
    /\ \E p1 \in Passwords, p2 \in Passwords, salt \in Salts :
         LET hashed == hash_password(p2, salt, bcrypt_build)
         IN app_out' = Some([op |-> "verify_password", p1 |-> p1, p2 |-> p2,
                             result |-> IF hashed.kind = "raise" THEN hashed
                                        ELSE verify_password(p1, hashed.value,
                                                             bcrypt_build),
                             tasks |-> <<>>])
    /\ ran' = <<>>
    /\ UNCHANGED <<bcrypt_build, db_users, password_of, db_items, pending,
                   background_tasks>>
    /\ UNCHANGED <<auth_vars, pipe_vars, rate_vars, log_vars, vault_vars>>

\* a task function is called directly, as a scheduler or a test calls it
CallTask ==
    /\ AppIdle
    /\ \E func \in TaskFunctions :
         \E fail_at \in FailurePoints(func) :
           LET task == Task(func, DirectArgs(func))
           IN /\ app_out' = Some([op |-> "call_task", tasks |-> <<task>>])
              /\ ran' = <<[task |-> task, fail_at |-> fail_at,
                           result |-> worker(func, task.args, fail_at)]>>
    /\ UNCHANGED <<bcrypt_build, db_users, password_of, db_items, pending,
                   background_tasks>>
    /\ UNCHANGED <<auth_vars, pipe_vars, rate_vars, log_vars, vault_vars>>

\* BackgroundTasks.__call__ after the response is sent: the next task is
\* called, once; a task that raised would end the loop
RunTask ==
    /\ app_out # None
    /\ background_tasks # <<>>
    /\ LET task == Head(background_tasks)
       IN \E fail_at \in FailurePoints(task.func) :
            LET result == worker(task.func, task.args, fail_at)
            IN /\ ran' = Append(ran, [task |-> task, fail_at |-> fail_at,
                                      result |-> result])
               /\ background_tasks' = IF result.raised THEN <<>>
                                      ELSE Tail(background_tasks)
    /\ UNCHANGED <<bcrypt_build, db_users, password_of, db_items, pending, app_out>>
    /\ UNCHANGED <<auth_vars, pipe_vars, rate_vars, log_vars, vault_vars>>

\* the request is over
AppReturn ==
    /\ app_out # None
    /\ background_tasks = <<>>
    /\ app_out' = None
    /\ ran' = <<>>
    /\ UNCHANGED <<bcrypt_build, db_users, password_of, db_items, pending,
                   background_tasks>>
    /\ UNCHANGED <<auth_vars, pipe_vars, rate_vars, log_vars, vault_vars>>

NextApp ==
    \/ \E w \in Workers : RegisterAdd(w)
    \/ \E w \in Workers : RegisterCommit(w)
    \/ Login
    \/ HashAndVerify
    \/ CallTask
    \/ RunTask
    \/ AppReturn

SpecApp == Init /\ [][NextApp]_vars

-----------------------------------------------------------------------------
(* The item routes: src/routers/items.py.  SpecItems                       *)

\* what Depends(get_current_user) binds the parameter `username: str` to:
\* the value core.security.get_current_user returns, which is the User row
Depends(resolved) == [t |-> "User", v |-> resolved.user]

\* db.query(User).filter(User.username == username).first().  SQLAlchemy
\* refuses a mapped instance as the right-hand side of a column comparison
\* (ArgumentError: Object ... is not legal as a SQL literal value).
query_user(db, username) ==
    IF username.t = "User"
    THEN [kind |-> "raise", exc |-> "ArgumentError"]
    ELSE [kind |-> "return", value |-> first_user(db, username.v)]

\* db.query(Item).filter(Item.id == item_id, Item.owner_id == user.id).first()
query_item(items, item_id, owner_id) ==
    LET rows == {i \in items : i.id = item_id /\ i.owner_id = owner_id}
    IN IF rows = {} THEN None ELSE Some(CHOOSE i \in rows : TRUE)

\* the handler raised something that is no HTTPException; nothing was committed
Crash(items) == [db |-> items, response |-> InternalServerError, tasks |-> <<>>]

\* raise HTTPException(status_code=404, detail="Item not found")
ItemNotFound(items) ==
    [db |-> items,
     response |-> [status_code |-> 404, body |-> [detail |-> "Item not found"],
                   headers |-> <<>>],
     tasks |-> <<>>]

\* `if value:` for an Optional[str]
TruthyStr(o) == ~IsNone(o) /\ o[1] # ""

\* create_item, lines 32-48
create_item(db, items, username, item) ==
    LET q == query_user(db, username)
    IN IF q.kind = "raise" \/ IsNone(q.value) THEN Crash(items)
       ELSE LET user == q.value[1]
                db_item == [id |-> NextId(items), title |-> item.title,
                            description |-> item.description, owner_id |-> user.id,
                            is_completed |-> FALSE]
            IN [db |-> items \cup {db_item},
                response |-> [status_code |-> 200, body |-> db_item, headers |-> <<>>],
                tasks |-> <<Task("send_item_notification",
                                 <<user.email, username.v, item.title, "created">>),
                            Task("log_user_action",
                                 <<username.v, "CREATE_ITEM", item.title>>)>>]

\* get_items, lines 56-58
get_items(db, items, username) ==
    LET q == query_user(db, username)
    IN IF q.kind = "raise" \/ IsNone(q.value) THEN Crash(items)
       ELSE [db |-> items,
             response |-> [status_code |-> 200,
                           body |-> {i \in items : i.owner_id = q.value[1].id},
                           headers |-> <<>>],
             tasks |-> <<>>]

\* get_item, lines 68-76
get_item(db, items, username, item_id) ==
    LET q == query_user(db, username)
    IN IF q.kind = "raise" \/ IsNone(q.value) THEN Crash(items)
       ELSE LET item == query_item(items, item_id, q.value[1].id)
            IN IF IsNone(item) THEN ItemNotFound(items)
               ELSE [db |-> items,
                     response |-> [status_code |-> 200, body |-> item[1],
                                   headers |-> <<>>],
                     tasks |-> <<>>]

\* update_item, lines 99-134
update_item(db, items, username, item_id, item_update) ==
    LET q == query_user(db, username)
    IN IF q.kind = "raise" \/ IsNone(q.value) THEN Crash(items)
       ELSE LET user == q.value[1]
                found == query_item(items, item_id, user.id)
            IN IF IsNone(found) THEN ItemNotFound(items)
               ELSE LET was_completed == found[1].is_completed
                        item == [found[1] EXCEPT
                                   !.title = IF TruthyStr(item_update.title)
                                             THEN item_update.title[1] ELSE @,
                                   !.description = IF TruthyStr(item_update.description)
                                                   THEN item_update.description ELSE @,
                                   !.is_completed = IF ~IsNone(item_update.is_completed)
                                                    THEN item_update.is_completed[1]
                                                    ELSE @]
                    IN [db |-> (items \ {found[1]}) \cup {item},
                        response |-> [status_code |-> 200, body |-> item,
                                      headers |-> <<>>],
                        tasks |->
                            <<Task("send_item_notification",
                                   <<user.email, username.v, item.title, "updated">>)>>
                            \o (IF ~was_completed /\ item.is_completed
                                THEN <<Task("process_item_completion",
                                            <<item_id, username.v, item.title>>)>>
                                ELSE <<>>)
                            \o <<Task("log_user_action",
                                      <<username.v, "UPDATE_ITEM", item_id,
                                        item.is_completed>>)>>]

\* delete_item, lines 151-171
delete_item(db, items, username, item_id) ==
    LET q == query_user(db, username)
    IN IF q.kind = "raise" \/ IsNone(q.value) THEN Crash(items)
       ELSE LET user == q.value[1]
                item == query_item(items, item_id, user.id)
            IN IF IsNone(item) THEN ItemNotFound(items)
               ELSE [db |-> items \ {item[1]},
                     response |-> [status_code |-> 204, body |-> [text |-> ""],
                                   headers |-> <<>>],
                     tasks |-> <<Task("send_item_notification",
                                      <<user.email, username.v, item[1].title, "deleted">>),
                                 Task("log_user_action",
                                      <<username.v, "DELETE_ITEM", item_id,
                                        item[1].title>>)>>]

\* the bearer tokens the item routes are called with: none, and the token a
\* login made now gives each stored user
ItemTokens ==
    {NoToken}
    \cup {create_access_token([sub |-> u], Some(Minutes(access_token_expire_minutes)), now) :
              u \in {"alice", "bob"}}

ItemIds == {1, 2, 3, 4}

ItemCreates == [title : {"bread"}, description : {None, Some("rye")}]

ItemUpdates ==
    [title : {None, Some(""), Some("soap")},
     description : {None, Some("lavender")},
     is_completed : {None, Some(TRUE), Some(FALSE)}]

\* the dependency failed: app_exception_handler answers, the handler never ran
Rejected(path, method, resolved) ==
    [db |-> db_items, response |-> app_exception_handler(path, method, resolved.exc),
     tasks |-> <<>>]

\* the route answers: what was committed, scheduled and sent
AnswerItems(op, resolved, args, out) ==
    /\ db_items' = out.db
    /\ background_tasks' = out.tasks
    /\ app_out' = Some([op |-> op, caller |-> resolved, args |-> args,
                        db_before |-> db_items, response |-> out.response,
                        tasks |-> out.tasks])
    /\ ran' = <<>>
    /\ UNCHANGED <<bcrypt_build, db_users, password_of, pending>>
    /\ UNCHANGED <<auth_vars, pipe_vars, rate_vars, log_vars, vault_vars>>

\* POST /api/v1/items
CreateItem ==
    /\ AppIdle
    /\ \E token \in ItemTokens, item \in ItemCreates :
         LET resolved == get_current_user(token, now, db_users)
         IN AnswerItems("create_item", resolved, [item |-> item],
                        IF resolved.kind = "raise"
                        THEN Rejected("/api/v1/items", "POST", resolved)
                        ELSE create_item(db_users, db_items, Depends(resolved), item))

\* GET /api/v1/items
GetItems ==
    /\ AppIdle
    /\ \E token \in ItemTokens :
         LET resolved == get_current_user(token, now, db_users)
         IN AnswerItems("get_items", resolved, <<>>,
                        IF resolved.kind = "raise"
                        THEN Rejected("/api/v1/items", "GET", resolved)
                        ELSE get_items(db_users, db_items, Depends(resolved)))

\* GET /api/v1/items/{item_id}
GetItem ==
    /\ AppIdle
    /\ \E token \in ItemTokens, item_id \in ItemIds :
         LET resolved == get_current_user(token, now, db_users)
         IN AnswerItems("get_item", resolved, [item_id |-> item_id],
                        IF resolved.kind = "raise"
                        THEN Rejected("/api/v1/items/{item_id}", "GET", resolved)
                        ELSE get_item(db_users, db_items, Depends(resolved), item_id))

\* PUT /api/v1/items/{item_id}
UpdateItem ==
    /\ AppIdle
    /\ \E token \in ItemTokens, item_id \in ItemIds, item_update \in ItemUpdates :
         LET resolved == get_current_user(token, now, db_users)
         IN AnswerItems("update_item", resolved,
                        [item_id |-> item_id, item_update |-> item_update],
                        IF resolved.kind = "raise"
                        THEN Rejected("/api/v1/items/{item_id}", "PUT", resolved)
                        ELSE update_item(db_users, db_items, Depends(resolved), item_id,
                                         item_update))

\* DELETE /api/v1/items/{item_id}
DeleteItem ==
    /\ AppIdle
    /\ \E token \in ItemTokens, item_id \in ItemIds :
         LET resolved == get_current_user(token, now, db_users)
         IN AnswerItems("delete_item", resolved, [item_id |-> item_id],
                        IF resolved.kind = "raise"
                        THEN Rejected("/api/v1/items/{item_id}", "DELETE", resolved)
                        ELSE delete_item(db_users, db_items, Depends(resolved), item_id))

NextItems ==
    \/ CreateItem
    \/ GetItems
    \/ GetItem
    \/ UpdateItem
    \/ DeleteItem
    \/ AppReturn

SpecItems == Init /\ [][NextItems]_vars

-----------------------------------------------------------------------------
(* The secrets vault: src/vault.py.  SpecVault                             *)

\* SecretVault._required_secrets
_required_secrets == {"SECRET_KEY", "ALGORITHM", "DATABASE_URL"}

\* os.getenv(key, default)
os_getenv(env, key, default) == IF ~IsNone(env[key]) THEN env[key] ELSE default

\* mutant of get_secret: the environment is read on every call
get_secret_uncached(cache, accessed, env, key, default) ==
    LET value == os_getenv(env, key, default)
    IN IF key \in _required_secrets /\ IsNone(value)
       THEN [kind |-> "raise", exc |-> "ValueError", cache |-> cache,
             accessed |-> accessed]
       ELSE IF ~IsNone(value)
       THEN [kind |-> "return", value |-> value,
             cache |-> [cache EXCEPT ![key] = value],
             accessed |-> [accessed EXCEPT ![key] = TRUE]]
       ELSE [kind |-> "return", value |-> None, cache |-> cache, accessed |-> accessed]

\* SecretVault.get_secret(key, default): the result, and the cache and the
\* access marks it leaves.  A cache entry is None for a key that is not in
\* the dict.  The RuntimeWarning about a weak SECRET_KEY is issued after
\* the value is cached and touches nothing of the vault.
get_secret(cache, accessed, env, key, default) ==
    IF ~IsNone(cache[key])
    THEN [kind |-> "return", value |-> cache[key], cache |-> cache,
          accessed |-> [accessed EXCEPT ![key] = TRUE]]
    ELSE LET value == os_getenv(env, key, default)
         IN IF key \in _required_secrets /\ IsNone(value)
            THEN [kind |-> "raise", exc |-> "ValueError", cache |-> cache,
                  accessed |-> accessed]
            ELSE IF ~IsNone(value)
            THEN [kind |-> "return", value |-> value,
                  cache |-> [cache EXCEPT ![key] = value],
                  accessed |-> [accessed EXCEPT ![key] = TRUE]]
            ELSE [kind |-> "return", value |-> None, cache |-> cache,
                  accessed |-> accessed]

\* "*" * n
Stars(n) == [i \in 1..n |-> "*"]

\* secret[:k] for k >= 0
SliceTo(secret, k) == SubSeq(secret, 1, IF k < Len(secret) THEN k ELSE Len(secret))

\* secret[-k:] for k >= 0; -0 is 0, and secret[0:] is the whole string
SliceFromMinus(secret, k) ==
    IF k = 0 THEN secret
    ELSE SubSeq(secret, (IF k < Len(secret) THEN Len(secret) - k ELSE 0) + 1, Len(secret))

\* SecretVault.obfuscate_secret(secret, show_chars)
obfuscate_secret(secret, show_chars) ==
    IF Len(secret) <= show_chars * 2
    THEN Stars(Len(secret))
    ELSE SliceTo(secret, show_chars)
         \o Stars(Len(secret) - show_chars * 2)
         \o SliceFromMinus(secret, show_chars)

\* the values the environment and the callers' defaults take
EnvValues == {None, Some(""), Some("from-env-1"), Some("from-env-2")}

Defaults == {None, Some("fallback")}

MaxSecretLen == 5

MaxShowChars == 2

Letters == <<"h", "u", "n", "t", "e", "r">>

\* the secrets handed to obfuscate_secret: one of each length
SecretStrings ==
    {[i \in 1..n |-> Letters[((i - 1) % Len(Letters)) + 1]] : n \in 0..MaxSecretLen}

\* the process environment changes: a variable is set, changed or unset
SetEnv ==
    /\ \E k \in VaultKeys, v \in EnvValues :
         /\ environ[k] # v
         /\ environ' = [environ EXCEPT ![k] = v]
    /\ UNCHANGED <<_secrets_cache, _accessed_secrets, vout, first_read>>
    /\ UNCHANGED <<auth_vars, pipe_vars, rate_vars, log_vars, app_vars>>

\* vault.get_secret(key, default)
GetSecret ==
    /\ \E key \in VaultKeys, default \in Defaults :
         LET result == get_secret(_secrets_cache, _accessed_secrets, environ, key,
                                  default)
         IN /\ _secrets_cache' = result.cache
            /\ _accessed_secrets' = result.accessed
            /\ vout' = Some([op |-> "get_secret", key |-> key, default |-> default,
                             cache_before |-> _secrets_cache,
                             result |-> IF result.kind = "raise"
                                        THEN [kind |-> "raise", exc |-> result.exc]
                                        ELSE [kind |-> "return",
                                              value |-> result.value]])
            /\ first_read' = IF result.kind = "return" /\ ~IsNone(result.value)
                                /\ IsNone(first_read[key])
                             THEN [first_read EXCEPT ![key] = result.value]
                             ELSE first_read
    /\ UNCHANGED environ
    /\ UNCHANGED <<auth_vars, pipe_vars, rate_vars, log_vars, app_vars>>

\* SecretVault.obfuscate_secret(secret, show_chars)
Obfuscate ==
    /\ \E secret \in SecretStrings, show_chars \in 0..MaxShowChars :
         vout' = Some([op |-> "obfuscate_secret", secret |-> secret,
                       show_chars |-> show_chars,
                       result |-> obfuscate_secret(secret, show_chars)])
    /\ UNCHANGED <<environ, _secrets_cache, _accessed_secrets, first_read>>
    /\ UNCHANGED <<auth_vars, pipe_vars, rate_vars, log_vars, app_vars>>

NextVault ==
    \/ SetEnv
    \/ GetSecret
    \/ Obfuscate

SpecVault == Init /\ [][NextVault]_vars

-----------------------------------------------------------------------------
(* Claims about the resolver and the token service, under SpecAuth.  A     *)
(* finished call is observed with the clock as it was when the token was   *)
(* decoded and the store as it was when it was queried: neither moves      *)
(* while rq.pc = "done".                                                   *)

Finished == rq.pc = "done"

Returned == Finished /\ rq.out.kind = "user"

RaisedAt(site) == Finished /\ rq.out.kind = "raise" /\ rq.out.site = site

\* the token carries the server's signature
SignedByServer(tok) == tok.form = "jwt" /\ tok.key = SecretKey

HasClaim(tok, c) == c \in DOMAIN tok.claims

\* the token's exp, when it has one, is not behind the clock's second
Unexpired(tok, t) == HasClaim(tok, "exp") => tok.claims["exp"] >= ToSeconds(t)

\* C1: get_current_user returns a user only if a token was presented, it
\* verifies under the server secret and is not expired, its sub names a row
\* of the user store and that row is active; the user returned is that row.
\* Every other call ends in a raised error.
C1_UserOnlyWhenAllChecksPass ==
    Finished =>
        /\ rq.out.kind \in {"user", "raise"}
        /\ rq.out.kind = "user" =>
             /\ rq.token # NoToken
             /\ SignedByServer(rq.token)
             /\ Unexpired(rq.token, now)
             /\ HasClaim(rq.token, "sub")
             /\ \E r \in users :
                  /\ r.username = rq.token.claims["sub"]
                  /\ r.is_active
                  /\ rq.out.user = r

\* a token made by create_access_token was accepted
C1_Witness ==
    /\ Returned
    /\ issued # None
    /\ rq.token = issued[1].token

\* the status and machine-readable code a client sees for a raised error
Wire(exc) ==
    LET r == app_exception_handler("/api/v1/users/me", "GET", exc)
    IN <<r.status_code, r.body.code>>

FourFailures == {"no_token", "jwt_error", "no_user", "inactive"}

\* C2: the four failures of principal resolution (no token, invalid token,
\* subject not in the store, inactive user) reach the client as pairwise
\* distinct (status, code) pairs: whichever of them a call ends in, none of
\* the other three renders the same.
C2_FourDistinctWireErrors ==
    (Finished /\ rq.out.kind = "raise" /\ rq.out.site \in FourFailures) =>
        \A other \in FourFailures \ {rq.out.site} :
            Wire(ResolverException(other)) # Wire(rq.out.exc)

\* the instant the token handed out last was asked to expire at
Deadline == issued[1].iat + issued[1].delta[1]

\* the call bears the token made last, with a time-to-live given by the
\* caller, and its subject is an active row of the store
BearsIssuedToken ==
    /\ Finished
    /\ issued # None
    /\ rq.token = issued[1].token
    /\ ~IsNone(issued[1].delta)
    /\ [username |-> issued[1].sub, is_active |-> TRUE] \in users

\* C3: a token made with time-to-live T for an existing active user is
\* accepted at every time before issue time + T and rejected as invalid or
\* expired at every time after it.
C3_AcceptedUntilTtlThenRejected ==
    BearsIssuedToken =>
        /\ now < Deadline => rq.out.kind = "user"
        /\ now > Deadline => RaisedAt("jwt_error")

\* C4: exp is the issue time plus the caller's expires_delta whenever one is
\* given, zero included; the 15 minute default is used only when none is.
C4_ExpIsNowPlusDelta ==
    issued # None =>
        LET r == issued[1]
            ttl == IF IsNone(r.delta) THEN Minutes(DefaultExpireMinutes) ELSE r.delta[1]
        IN r.token.claims["exp"] = ToSeconds(r.iat + ttl)

\* the raise statements that report an absent claim
MissingClaimSites == {"missing_sub"}

\* C5: a token with the server's signature that lacks sub or lacks exp is
\* never accepted, and the error it is rejected with reports the missing
\* claim rather than the generic invalid-or-expired token.
C5_MissingClaimRejected ==
    (/\ Finished
     /\ rq.token # NoToken
     /\ SignedByServer(rq.token)
     /\ ~(HasClaim(rq.token, "sub") /\ HasClaim(rq.token, "exp"))) =>
        /\ rq.out.kind = "raise"
        /\ rq.out.site \in MissingClaimSites

\* the call bears a verified, unexpired token naming a subject
BearsValidToken ==
    /\ Finished
    /\ rq.token # NoToken
    /\ SignedByServer(rq.token)
    /\ Unexpired(rq.token, now)
    /\ HasClaim(rq.token, "sub")

\* C6: the principal is read from the store on every call: with a valid
\* token, a subject that is no longer in the store ends in user-not-found
\* and one whose row is inactive ends in inactive-user, whatever the store
\* held before and however its changes interleave with the call.
C6_StoreReadOnEveryRequest ==
    BearsValidToken =>
        LET rows == {r \in users : r.username = rq.token.claims["sub"]}
        IN /\ rows = {} => RaisedAt("no_user")
           /\ (\E r \in rows : ~r.is_active) => RaisedAt("inactive")

\* alice, active and present at start-up, was deactivated or deleted and a
\* call bearing the token made for her then failed
C6_Witness ==
    /\ BearsValidToken
    /\ issued # None
    /\ rq.token = issued[1].token
    /\ issued[1].sub = "alice"
    /\ rq.out.kind = "raise"
    /\ rq.out.site \in {"no_user", "inactive"}

-----------------------------------------------------------------------------
(* Claims about the pipeline, under Spec                                   *)

Sent == dir = "sent"

RECURSIVE Reverse(_)
Reverse(q) == IF q = <<>> THEN <<>> ELSE Append(Reverse(Tail(q)), Head(q))

\* the stage order of the design, first stage first
DesignOrder ==
    <<"RequestSizeLimiter", "SecurityHeadersMiddleware", "LoggingMiddleware",
      "RequestIDMiddleware", "SlowAPIMiddleware", "CORSMiddleware">>

\* C7: a request answered by its route handler has passed the stages in the
\* order body-size admission, security headers, logging, request-id, rate
\* limiting, CORS, each once, and its response has passed them in the
\* reverse order.
C7_StagesInDesignOrderOnce ==
    (Sent /\ resp[1].by = "handler") =>
        /\ entered = DesignOrder
        /\ exited = Reverse(DesignOrder)

RequiredResponseHeaders ==
    {"X-Content-Type-Options", "X-Frame-Options", "Referrer-Policy",
     "Cross-Origin-Opener-Policy", "X-Request-ID"}

\* C8: every response that leaves the application, whatever its status and
\* also when a stage or the handler failed, carries the hardening headers
\* and X-Request-ID.  (Stated for the requests that are not CORS preflights,
\* which CORSMiddleware answers itself.)
C8_HeadersOnEveryResponse ==
    (Sent /\ resp[1].by # "cors_preflight") =>
        RequiredResponseHeaders \subseteq DOMAIN resp[1].headers

RequestIDPositions == {p \in 1..Depth : user_middleware[p] = "RequestIDMiddleware"}

\* the RequestIDMiddleware at p has just called call_next
JustEntered(p) == dir = "down" /\ pos = p + 1

\* the RequestIDMiddleware at p has just returned its response
JustExited(p) == dir = "up" /\ pos = p - 1

\* the id is one generated for this request, by this dispatch alone
FreshId(p) ==
    /\ \E n \in 1..nuuid : local_rid[p] = uuid4(n)
    /\ \A q \in DOMAIN local_rid \ {p} : local_rid[q] # local_rid[p]
    /\ Some(local_rid[p]) # req[1].rid

C10_LoggedIdIsResponseId ==
    Sent =>
        \A i \in DOMAIN logs :
            /\ "X-Request-ID" \in DOMAIN resp[1].headers
            /\ logs[i].request_id = resp[1].headers["X-Request-ID"]

-----------------------------------------------------------------------------
(* Claims about body-size admission, under Spec                            *)

SizeLimiterPositions == {p \in 1..Depth : user_middleware[p] = "RequestSizeLimiter"}

BodyMethods == {"POST", "PUT", "PATCH"}

\* the request declares a Content-Length above max_size
DeclaredTooLarge == ~IsNone(req[1].clen) /\ req[1].clen[1] > max_size

\* the RequestSizeLimiter at p has run its dispatch up to call_next or raise
Dispatched(p) == p \in DOMAIN reads

\* the exception in flight was raised by the stage at p
RaisedBy(p) == raised # None /\ raised[1].at = p

\* no stage below p has received the request
NothingBelow(p) == Len(entered) = p

\* C11: for a POST, PUT or PATCH request whose declared Content-Length
\* exceeds max_size, RequestSizeLimiter raises a 413 error, has read no chunk
\* of the body, and no stage below it (nor the handler) received the request.
C11_DeclaredTooLargeRejectedUnread ==
    \A p \in SizeLimiterPositions :
        (Dispatched(p) /\ req[1].method \in BodyMethods /\ DeclaredTooLarge) =>
            /\ RaisedBy(p)
            /\ raised[1].status_code = Some(413)
            /\ reads[p] = 0
            /\ stream = req[1].chunks
            /\ NothingBelow(p)

\* a request declaring max_size + 1 bytes, with a body to read, was rejected
C11_Witness ==
    \E p \in SizeLimiterPositions :
        /\ dir = "raise"
        /\ RaisedBy(p)
        /\ DeclaredTooLarge
        /\ req[1].method = "PUT"
        /\ req[1].chunks # <<>>

\* the length of the first i chunks the client sends
PrefixLen(i) == ByteLen(Join(SubSeq(req[1].chunks, 1, i)))

TotalLen == PrefixLen(Len(req[1].chunks))

\* the first chunk that brings the accumulated length above max_size
Crossing ==
    CHOOSE i \in 1..Len(req[1].chunks) :
        /\ PrefixLen(i) > max_size
        /\ \A j \in 1..(i - 1) : PrefixLen(j) <= max_size

\* C12: when the Content-Length check lets a POST, PUT or PATCH request
\* through (none declared, or one within the limit), RequestSizeLimiter
\* raises 413 exactly when the body is longer than max_size, at the first
\* chunk that brings the accumulated length above max_size: it has read that
\* chunk and none after it, and no stage below received the request.  A body
\* of max_size bytes or fewer is admitted.
C12_AbortAtCrossingChunk ==
    \A p \in SizeLimiterPositions :
        (Dispatched(p) /\ req[1].method \in BodyMethods /\ ~DeclaredTooLarge) =>
            IF TotalLen > max_size
            THEN /\ RaisedBy(p)
                 /\ raised[1].status_code = Some(413)
                 /\ reads[p] = Crossing
                 /\ NothingBelow(p)
            ELSE ~RaisedBy(p)

\* a request that declared max_size bytes and sent more was stopped at the
\* crossing chunk with a chunk left unread
C12_Witness ==
    \E p \in SizeLimiterPositions :
        /\ dir = "raise"
        /\ RaisedBy(p)
        /\ req[1].clen = Some(max_size)
        /\ reads[p] < Len(req[1].chunks)

\* C13: when RequestSizeLimiter admits a POST, PUT or PATCH request, the body
\* the stages below it and the handler read is the concatenation, in order,
\* of the chunks the client sent.
C13_BodyHandedOnUnchanged ==
    \A p \in SizeLimiterPositions :
        (Dispatched(p) /\ ~RaisedBy(p) /\ dir = "down"
         /\ req[1].method \in BodyMethods) =>
            Join(stream) = Join(req[1].chunks)

\* the handler is about to read a body that came in two different chunks
C13_Witness ==
    /\ AtHandler
    /\ req[1].method = "POST"
    /\ Len(req[1].chunks) = 2
    /\ req[1].chunks[1] # req[1].chunks[2]
    /\ Join(stream) = req[1].chunks[1] \o req[1].chunks[2]

-----------------------------------------------------------------------------
(* Claims about logging and error rendering in the pipeline, under Spec    *)

\* C14: the response LoggingMiddleware returns has the status code, the
\* headers and the body bytes of the response it received from downstream,
\* and a response with status 400 or above is returned as it is.
C14_LoggingTransparent ==
    [][LoggingMiddleware_exit =>
          /\ resp'[1].status_code = resp[1].status_code
          /\ resp'[1].headers = resp[1].headers
          /\ Join(resp'[1].body) = Join(resp[1].body)
          /\ resp[1].status_code >= 400 => resp' = resp]_vars

\* a LoggingMiddleware has rebuilt a success response that already carried
\* the headers stamped by the stages below it
C14_Witness ==
    /\ dir = "up"
    /\ exited # <<>>
    /\ exited[Len(exited)] = "LoggingMiddleware"
    /\ resp[1].status_code = 200
    /\ "X-Request-ID" \in DOMAIN resp[1].headers
    /\ Join(resp[1].body) = json_dumps(DictOfStr([data |-> "ok"]))

ErrorBodyFields == {"detail", "code", "path", "method", "timestamp"}

\* the response that left the application reports a failure raised by the
\* resolver, a route handler or a pipeline stage
FailureSent == Sent /\ resp[1].status_code >= 400 /\ resp[1].by # "cors_preflight"

\* C18: every failure response is one JSON object with exactly the fields
\* detail, code, path, method and timestamp.
C18_UniformErrorBody ==
    FailureSent =>
        LET document == json_loads(Join(resp[1].body))
        IN /\ ~IsNone(document)
           /\ document[1].t = "dict"
           /\ DOMAIN document[1].v = ErrorBodyFields

\* C20: every error response has been logged, with its status code, by the
\* time it leaves the application.
C20_ErrorsLoggedBeforeReturn ==
    FailureSent =>
        \E i \in DOMAIN logs : logs[i].status_code = resp[1].status_code

-----------------------------------------------------------------------------
(* Claims about redaction and rendering, under SpecLog                     *)

Called(op) == lin # None /\ lin[1].op = op

\* the names the claim lists, as the payloads spell them
NamedSensitive == {"password", "Authorization", "API_KEY"}

\* names no part of the heuristic matches
NamedPlain == {"username"}

IsMarker(value) == value.t = "str" /\ value.v = REDACTED

\* out is data with the value of every listed name replaced by the marker,
\* every plain name kept with its value treated the same way, and nothing
\* else added, dropped or moved
RECURSIVE RedactedCopy(_, _)
RedactedCopy(data, out) ==
    IF data.t = "dict"
    THEN /\ out.t = "dict"
         /\ DOMAIN out.v = DOMAIN data.v
         /\ \A k \in DOMAIN data.v :
              IF k \in NamedSensitive THEN IsMarker(out.v[k])
              ELSE IF k \in NamedPlain THEN RedactedCopy(data.v[k], out.v[k])
              ELSE IsMarker(out.v[k]) \/ RedactedCopy(data.v[k], out.v[k])
    ELSE IF data.t = "list"
    THEN /\ out.t = "list"
         /\ Len(out.v) = Len(data.v)
         /\ \A i \in DOMAIN data.v : RedactedCopy(data.v[i], out.v[i])
    ELSE out.t = data.t /\ out.v = data.v

\* C15: _redact_sensitive_data returns a structure with the keys and nesting
\* of its input in which the value of every key named password,
\* Authorization or api_key, in any letter case and at any depth inside dicts
\* and lists, is the marker "[REDACTED]", and the value of every key the
\* heuristic does not match is unchanged.
C15_RedactionShape ==
    Called("redact") => RedactedCopy(lin[1].data, lout[1].result)

\* an Authorization key inside a dict inside a list inside a dict was
\* redacted, the username beside it was not
C15_Witness ==
    /\ Called("redact")
    /\ lin[1].data =
          JDict("username" :>
                JList(<<Leaf, JDict(("Authorization" :> Leaf) @@ ("username" :> Leaf))>>))
    /\ lout[1].result =
          JDict("username" :>
                JList(<<Leaf, JDict(("Authorization" :> JStr(REDACTED))
                                    @@ ("username" :> Leaf))>>))

\* the value occurs somewhere in a logged body
RECURSIVE Mentions(_, _)
Mentions(value, secret) ==
    CASE value.t = "str" -> value.v = secret
      [] value.t = "text" -> \E i \in DOMAIN value.v : value.v[i][2] = secret
      [] value.t = "dict" -> \E k \in DOMAIN value.v : Mentions(value.v[k], secret)
      [] value.t = "list" -> \E i \in DOMAIN value.v : Mentions(value.v[i], secret)

\* the log record carries the value of a sensitive field
Leaks(record) ==
    \/ ~IsNone(record.response_body) /\ Mentions(record.response_body[1], Secret)
    \/ ~IsNone(record.query_params)
         /\ \E i \in DOMAIN record.query_params[1] : record.query_params[1][i][2] = Secret
    \/ record.detail = Some(Secret)

\* C16: no log record written by log_response, for a success or for an
\* error, carries the value of a field with a sensitive name, in the body,
\* the detail or the query string.
C16_NoSecretInLogRecords ==
    (Called("log_success") \/ Called("render_error")) => ~Leaks(lout[1].record)

\* C19: every error with status 401 is rendered with WWW-Authenticate:
\* Bearer, and the response keeps the status code and the headers of the
\* error.
C19_ChallengeOnEvery401 ==
    (Called("render_error") /\ lin[1].exc.status_code = 401) =>
        /\ "WWW-Authenticate" \in DOMAIN lout[1].response.headers
        /\ lout[1].response.headers["WWW-Authenticate"] = "Bearer"
        /\ lout[1].response.status_code = 401
        /\ lout[1].response.headers = lin[1].exc.headers

\* C21: log_response logs an error with status 500 or above at error
\* severity with stack context, and an error with a 4xx status below error
\* severity: a 401 at warning, a 404 at info.
C21_SeverityByStatus ==
    Called("render_error") =>
        LET record == lout[1].record
            status_code == lin[1].exc.status_code
        IN /\ status_code >= 500 => record.level = "ERROR" /\ record.exc_info
           /\ status_code = 401 => record.level = "WARNING"
           /\ status_code = 404 => record.level = "INFO"
           /\ (status_code >= 400 /\ status_code < 500) => record.level # "ERROR"

-----------------------------------------------------------------------------
(* Claim about rate limiting, under SpecRate                               *)

\* C17: of the requests one client address sends to a route within one
\* window, no more than 50 reach the handler.
C17_AtMostFiftyHandled == handled <= 50

-----------------------------------------------------------------------------
(* Claims about the account routes, the password hashing and the           *)
(* background tasks, under SpecApp                                         *)

Answered(op) == app_out # None /\ app_out[1].op = op

Registered(username) == ~IsNone(first_user(db_users, username))

\* C22: login does not reveal whether a username exists: for any password,
\* the response to a registered username with a wrong password and the
\* response to a username that is not registered are the same in status
\* (401), code, detail and headers.
C22_LoginHidesUsernames ==
    (Answered("login") /\ Registered(app_out[1].username)
        /\ app_out[1].password # password_of[app_out[1].username]) =>
        \A stranger \in LoginUsernames :
            ~Registered(stranger) =>
                LET known == app_out[1].response
                    unknown == login(db_users, stranger, app_out[1].password, now,
                                     bcrypt_build).response
                IN /\ known.status_code = 401
                   /\ unknown.status_code = 401
                   /\ known.body.code = unknown.body.code
                   /\ known.body.detail = unknown.body.detail
                   /\ known.headers = unknown.headers

\* the instants at which the token of a login made now is presented before
\* it expires
BeforeExpiry == {now, now + 1000, now + Minutes(access_token_expire_minutes) - 1}

\* C23: for a registered, active user u with password p, login(u, p) returns
\* a bearer token whose subject is u and which get_current_user resolves,
\* before its expiry, to that same user; login with any other password
\* returns no token.
C23_LoginTokenResolvesToUser ==
    Answered("login") =>
        \A u \in db_users :
            (u.username = app_out[1].username /\ u.is_active) =>
                LET response == app_out[1].response
                IN IF app_out[1].password = password_of[u.username]
                   THEN /\ response.status_code = 200
                        /\ response.body.token_type = "bearer"
                        /\ response.body.access_token.form = "jwt"
                        /\ response.body.access_token.claims["sub"] = u.username
                        /\ \A t \in BeforeExpiry :
                             get_current_user(response.body.access_token, t, db_users)
                                 = [kind |-> "user", user |-> u]
                   ELSE /\ response.status_code # 200
                        /\ "access_token" \notin DOMAIN response.body

\* C24: a registration whose username or email a stored user already holds,
\* also when another registration commits first, fails with 409 and a code
\* that identifies the duplicate (the username conflict when the username
\* exists, the email conflict otherwise), leaves the users table unchanged
\* and schedules no background task.
C24_DuplicateRegistrationConflicts ==
    Answered("register") =>
        LET call == app_out[1]
            username_held == \E r \in call.db_before : r.username = call.user.username
            email_held == \E r \in call.db_before : r.email = call.user.email
        IN (username_held \/ email_held) =>
             /\ call.response.status_code = 409
             /\ call.response.body.detail = IF username_held
                                            THEN "Username already exists"
                                            ELSE "Email already exists"
             /\ call.response.body.code # ErrorCodeValue(CodeOf(
                    IF username_held THEN "EmailAlreadyExistsException"
                    ELSE "UsernameAlreadyExistsException"))
             /\ db_users = call.db_before
             /\ call.tasks = <<>>

\* C26: every call of a task function whose body fails logs the failure
\* once at error level and returns without raising, and every scheduled task
\* is called once, in order, never again.
C26_TaskFailuresLoggedOnce ==
    /\ \A i \in DOMAIN ran :
         LET result == ran[i].result
             errors == {j \in DOMAIN result.records : result.records[j].level = "ERROR"}
         IN /\ ~result.raised
            /\ Cardinality(errors) = IF ran[i].fail_at # 0 THEN 1 ELSE 0
    /\ app_out # None =>
         [i \in DOMAIN ran |-> ran[i].task] \o background_tasks = app_out[1].tasks

\* the welcome email of a registration failed, was logged, and the audit
\* task after it still ran
C26_Witness ==
    /\ Answered("register")
    /\ Len(ran) = 2
    /\ ran[1].task.func = "send_welcome_email"
    /\ ran[1].fail_at = 1
    /\ ran[1].result.records = <<LogRecord("ERROR", "Failed to send welcome email")>>
    /\ ran[2].task.func = "log_user_action"
    /\ background_tasks = <<>>

\* C27: for all passwords p1 and p2, verify_password(p1, hash_password(p2))
\* returns true if and only if p1 = p2, and raises for no password, the
\* empty one included.
C27_VerifyIffSamePassword ==
    Answered("verify_password") =>
        /\ app_out[1].result.kind = "return"
        /\ app_out[1].result.value = (app_out[1].p1 = app_out[1].p2)

-----------------------------------------------------------------------------
(* Claims about the item routes, under SpecItems                           *)

ItemOps == {"create_item", "get_items", "get_item", "update_item", "delete_item"}

\* an item route answered a caller whose token resolved to a user
AnsweredUser == app_out # None /\ app_out[1].op \in ItemOps /\ app_out[1].caller.kind = "user"

\* C25: item access is scoped to the owner: every item keeps the owner that
\* created it, a create stores the item under its caller, listing returns
\* exactly the caller's own items, and a get, update or delete of an item
\* another user owns answers 404 and leaves the items unchanged.
C25_ItemsScopedToOwner ==
    AnsweredUser =>
        LET call == app_out[1]
            me == call.caller.user.id
            existed(i) == \E j \in call.db_before : j.id = i.id
        IN /\ \A i \in db_items :
                IF existed(i)
                THEN \E j \in call.db_before : j.id = i.id /\ j.owner_id = i.owner_id
                ELSE call.op = "create_item" /\ i.owner_id = me
           /\ call.op = "create_item" =>
                /\ call.response.status_code = 200
                /\ \E i \in db_items : ~existed(i) /\ i.owner_id = me
           /\ call.op = "get_items" =>
                /\ call.response.status_code = 200
                /\ call.response.body = {i \in call.db_before : i.owner_id = me}
           /\ (call.op \in {"get_item", "update_item", "delete_item"}
                 /\ \E i \in call.db_before :
                      i.id = call.args.item_id /\ i.owner_id # me) =>
                /\ call.response.status_code = 404
                /\ db_items = call.db_before

\* C28: update_item schedules process_item_completion exactly when the
\* update changes is_completed from false to true, that is, when it carries
\* is_completed = true for an item of the caller that is not completed; an
\* update that leaves it true, leaves it false or sets it back to false
\* schedules none.
C28_CompletionScheduledOnFalseToTrue ==
    (AnsweredUser /\ app_out[1].op = "update_item") =>
        LET call == app_out[1]
        IN \A before \in call.db_before :
             (before.id = call.args.item_id /\ before.owner_id = call.caller.user.id) =>
                 ((\E k \in DOMAIN call.tasks :
                       call.tasks[k].func = "process_item_completion")
                  <=> (~before.is_completed
                       /\ call.args.item_update.is_completed = Some(TRUE)))

-----------------------------------------------------------------------------
(* Claims about the vault, under SpecVault                                 *)

VaultCalled(op) == vout # None /\ vout[1].op = op

\* C29: once get_secret(k) has returned a value v that is not None, every
\* later get_secret(k, default) returns v, whatever the environment and the
\* default then are, and the cache keeps v; a get_secret call that raises
\* for a missing required secret leaves the cache unchanged.
C29_SecretsStableOnceRead ==
    /\ \A k \in VaultKeys :
         ~IsNone(first_read[k]) => _secrets_cache[k] = first_read[k]
    /\ VaultCalled("get_secret") =>
         LET call == vout[1]
         IN /\ ~IsNone(first_read[call.key]) =>
                  /\ call.result.kind = "return"
                  /\ call.result.value = first_read[call.key]
            /\ call.result.kind = "raise" => _secrets_cache = call.cache_before

\* a secret read earlier is returned again although the environment now
\* holds another value and the caller supplies a default
C29_Witness ==
    /\ VaultCalled("get_secret")
    /\ vout[1].key = "SECRET_KEY"
    /\ vout[1].default = Some("fallback")
    /\ vout[1].cache_before["SECRET_KEY"] = Some("from-env-1")
    /\ environ["SECRET_KEY"] = Some("from-env-2")
    /\ vout[1].result = [kind |-> "return", value |-> Some("from-env-1")]

\* C30: for every secret and every show_chars >= 0, obfuscate_secret returns
\* a string as long as the secret in which every character is "*" or the
\* secret's own character at one of its first or last show_chars positions,
\* and which is all "*" when the secret is no longer than 2 * show_chars.
C30_ObfuscationHidesMiddle ==
    VaultCalled("obfuscate_secret") =>
        LET secret == vout[1].secret
            show_chars == vout[1].show_chars
            out == vout[1].result
        IN /\ Len(out) = Len(secret)
           /\ \A i \in DOMAIN out :
                \/ out[i] = "*"
                \/ /\ out[i] = secret[i]
                   /\ i <= show_chars \/ i > Len(secret) - show_chars
           /\ Len(secret) <= 2 * show_chars => out = Stars(Len(secret))

=============================================================================
